---- MODULE Spec2Model ----
(***************************************************************************)
(* Intent-classification pipeline of classificador-mensagens-api:          *)
(* PromptManager (example store + prompt builder), GeminiClient            *)
(* (completion provider), IntentService (parser + orchestrator) and the    *)
(* ClassificationResult model.                                             *)
(*                                                                         *)
(* Texts are sequences of one-character strings.  Confidence scores are    *)
(* integers in ten-thousandths (0.95 is 9500).  An error message is a      *)
(* sequence of string fragments, concatenated as the f-strings of the      *)
(* source concatenate them.  Enum members are written by member name       *)
(* ("GREETING", "HIGH"); their values are texts.                           *)
(***************************************************************************)
EXTENDS Integers, Sequences, FiniteSets, TLC

(***************************************************************************)
(* Bounds of the model.                                                    *)
(***************************************************************************)
\* number of processes (callers) the variables are indexed by
NumProcs == 2
\* longest batch a caller submits
MaxBatch == 2
\* clock ticks after which asyncio.wait_for gives up (self.timeout)
Timeout == 1

Procs == 1..NumProcs

\* Optional[...] values: None, or Some(v)
None == [some |-> FALSE]

Some(v) == [some |-> TRUE, v |-> v]

(***************************************************************************)
(* Text primitives (Python str / re semantics on the model's alphabet).    *)
(***************************************************************************)
UpperChars == <<"A", "B", "C", "D", "E", "F", "G", "H", "I", "J", "K", "L", "M",
                "N", "O", "P", "Q", "R", "S", "T", "U", "V", "W", "X", "Y", "Z">>

LowerChars == <<"a", "b", "c", "d", "e", "f", "g", "h", "i", "j", "k", "l", "m",
                "n", "o", "p", "q", "r", "s", "t", "u", "v", "w", "x", "y", "z">>

DigitChars == {"0", "1", "2", "3", "4", "5", "6", "7", "8", "9"}

SpaceChars == {" ", "\n", "\t"}

Range(s) == {s[i] : i \in 1..Len(s)}

\* str.isalnum on one character
IsAlnum(c) == c \in Range(UpperChars) \cup Range(LowerChars) \cup DigitChars

\* str.isspace on one character
IsSpace(c) == c \in SpaceChars

\* the class \w of re: alphanumerics and the underscore
IsWordChar(c) == IsAlnum(c) \/ c = "_"

LowerChar(c) ==
    IF c \in Range(UpperChars)
    THEN LowerChars[CHOOSE i \in 1..Len(UpperChars) : UpperChars[i] = c]
    ELSE c

\* str.lower
Lower(s) == [i \in 1..Len(s) |-> LowerChar(s[i])]

\* str.strip
Strip(s) ==
    LET keep == {i \in 1..Len(s) : ~IsSpace(s[i])}
    IN  IF keep = {} THEN <<>>
        ELSE LET lo == CHOOSE i \in keep : \A j \in keep : i <= j
                 hi == CHOOSE i \in keep : \A j \in keep : j <= i
             IN  SubSeq(s, lo, hi)

\* s[:n]
Take(s, n) == SubSeq(s, 1, IF Len(s) < n THEN Len(s) ELSE n)

\* re.sub(r'[^\w\s]', '', s)
SubNonWord(s) == SelectSeq(s, LAMBDA c : IsWordChar(c) \/ IsSpace(c))

\* the sequence of n copies of c
Repeat(c, n) == [i \in 1..n |-> c]

\* whether text a occurs in text b (Python `a in b`)
IsSubstring(a, b) ==
    \E k \in 0..(Len(b) - Len(a)) : SubSeq(b, k + 1, k + Len(a)) = a

(***************************************************************************)
(* domain/models.py                                                        *)
(***************************************************************************)
IntentType ==
    {"GREETING", "FAREWELL", "QUESTION", "COMPLAINT", "COMPLIMENT", "REQUEST",
     "INFORMATION", "HELP", "CANCELLATION", "CONFIRMATION", "UNKNOWN"}

\* IntentType.<member>.value
IntentValue(c) ==
    CASE c = "GREETING"     -> <<"g", "r", "e", "e", "t", "i", "n", "g">>
      [] c = "FAREWELL"     -> <<"f", "a", "r", "e", "w", "e", "l", "l">>
      [] c = "QUESTION"     -> <<"q", "u", "e", "s", "t", "i", "o", "n">>
      [] c = "COMPLAINT"    -> <<"c", "o", "m", "p", "l", "a", "i", "n", "t">>
      [] c = "COMPLIMENT"   -> <<"c", "o", "m", "p", "l", "i", "m", "e", "n", "t">>
      [] c = "REQUEST"      -> <<"r", "e", "q", "u", "e", "s", "t">>
      [] c = "INFORMATION"  -> <<"i", "n", "f", "o", "r", "m", "a", "t", "i", "o", "n">>
      [] c = "HELP"         -> <<"h", "e", "l", "p">>
      [] c = "CANCELLATION" -> <<"c", "a", "n", "c", "e", "l", "l", "a", "t", "i", "o", "n">>
      [] c = "CONFIRMATION" -> <<"c", "o", "n", "f", "i", "r", "m", "a", "t", "i", "o", "n">>
      [] c = "UNKNOWN"      -> <<"u", "n", "k", "n", "o", "w", "n">>

\* IntentType.from_string: the member whose value is value.lower(), else UNKNOWN
FromString(value) ==
    IF \E c \in IntentType : IntentValue(c) = Lower(value)
    THEN CHOOSE c \in IntentType : IntentValue(c) = Lower(value)
    ELSE "UNKNOWN"

ConfidenceLevel == {"HIGH", "MEDIUM", "LOW"}

\* the score 1.0 in ten-thousandths
ScoreOne == 10000
\* the thresholds 0.8 and 0.5 of calculate_confidence_level
HighThreshold == 8000
MediumThreshold == 5000

\* mutant of LevelOfScore: the 0.5 test comes first
LevelOfScoreMediumFirst(confidence) ==
    IF confidence >= MediumThreshold THEN "MEDIUM"
    ELSE IF confidence >= HighThreshold THEN "HIGH"
    ELSE "LOW"

\* the branches of calculate_confidence_level that read the score
LevelOfScore(confidence) ==
    IF confidence >= HighThreshold THEN "HIGH"
    ELSE IF confidence >= MediumThreshold THEN "MEDIUM"
    ELSE "LOW"

\* ClassificationResult.calculate_confidence_level(v, info), mode="before":
\* v is the value supplied for the field, confidence is info.data["confidence"]
CalculateConfidenceLevel(v, confidence) ==
    IF v \in ConfidenceLevel THEN v ELSE LevelOfScore(confidence)

\* ClassificationResult(...): the fields the pipeline reads back
ClassificationResult(intent, confidence, level, raw, ms, metadata) ==
    [intent |-> intent,
     confidence |-> confidence,
     confidence_level |-> CalculateConfidenceLevel(level, confidence),
     raw_response |-> raw,
     processing_time_ms |-> ms,
     model_used |-> "gemini-2.5-flash",
     metadata |-> metadata]

(***************************************************************************)
(* core/exceptions.py: an exception is [type, message, details].           *)
(***************************************************************************)
ValidationException(message, details) ==
    [type |-> "ValidationException", message |-> message, details |-> details]

ExamplesLoadException(reason) ==
    [type |-> "ExamplesLoadException",
     message |-> <<"Erro ao carregar exemplos de '", "src/data/examples.json", "': ">>
                 \o reason,
     details |-> [reason |-> reason]]

PromptBuildException(reason, details) ==
    [type |-> "PromptBuildException",
     message |-> <<"Erro ao construir prompt: ">> \o reason,
     details |-> details]

GeminiAPIException(message) ==
    [type |-> "GeminiAPIException",
     message |-> <<"Erro na API Gemini: ">> \o message,
     details |-> [status_code |-> None]]

GeminiTimeoutException(timeout) ==
    [type |-> "GeminiTimeoutException",
     message |-> <<"Timeout ao chamar Gemini API (", ToString(timeout), "s)">>,
     details |-> [timeout_seconds |-> timeout]]

GeminiRateLimitException ==
    [type |-> "GeminiRateLimitException",
     message |-> <<"Rate limit excedido na API do Gemini">>,
     details |-> [status_code |-> None]]

GeminiInvalidResponseException(reason) ==
    [type |-> "GeminiInvalidResponseException",
     message |-> <<"Resposta inválida do Gemini: ">> \o reason,
     details |-> [reason |-> reason]]

ClassificationFailedException(reason, details) ==
    [type |-> "ClassificationFailedException",
     message |-> <<"Falha na classificação: ">> \o reason,
     details |-> details]

\* str(e) of an application exception
Str(e) == e.message

(***************************************************************************)
(* services/intent_service.py: input validation and the response parser.   *)
(***************************************************************************)
\* the limit of _validate_input
MaxInputLen == 1000
\* the length of input_preview in classify's error details
PreviewLen == 100

NoError == [type |-> "none"]

\* mutant of ValidateInput: the length limit is off by one
ValidateInputOffByOne(user_input) ==
    IF user_input = <<>> \/ Strip(user_input) = <<>>
    THEN ValidationException(<<"O texto não pode estar vazio">>,
                             [field |-> "user_input"])
    ELSE IF Len(user_input) >= MaxInputLen
    THEN ValidationException(<<"O texto excede o limite de 1000 caracteres">>,
                             [field |-> "user_input", length |-> Len(user_input),
                              max_length |-> MaxInputLen])
    ELSE IF ~(\E i \in 1..Len(user_input) : IsAlnum(user_input[i]))
    THEN ValidationException(
             <<"O texto deve conter pelo menos um caractere alfanumérico">>,
             [field |-> "user_input"])
    ELSE NoError

\* IntentService._validate_input: the exception it raises, or NoError
ValidateInput(user_input) ==
    IF user_input = <<>> \/ Strip(user_input) = <<>>
    THEN ValidationException(<<"O texto não pode estar vazio">>,
                             [field |-> "user_input"])
    ELSE IF Len(user_input) > MaxInputLen
    THEN ValidationException(<<"O texto excede o limite de 1000 caracteres">>,
                             [field |-> "user_input", length |-> Len(user_input),
                              max_length |-> MaxInputLen])
    ELSE IF ~(\E i \in 1..Len(user_input) : IsAlnum(user_input[i]))
    THEN ValidationException(
             <<"O texto deve conter pelo menos um caractere alfanumérico">>,
             [field |-> "user_input"])
    ELSE NoError

\* the confidence constants 0.95, 0.3, 0.85 and 0.7 of _calculate_confidence
ExactScore == 9500
UnknownScore == 3000
SubstringScore == 8500
OtherScore == 7000

\* mutant of CalculateConfidence: an unknown answer scores 0.0
CalculateConfidenceZeroUnknown(cleaned_response, intent) ==
    IF cleaned_response = IntentValue(intent) /\ intent # "UNKNOWN" THEN ExactScore
    ELSE IF intent = "UNKNOWN" THEN 0
    ELSE IF IsSubstring(IntentValue(intent), cleaned_response) THEN SubstringScore
    ELSE OtherScore

\* mutant of CalculateConfidence: the unknown rule is applied before the
\* exact-match rule
CalculateConfidenceUnknownFirst(cleaned_response, intent) ==
    IF intent = "UNKNOWN" THEN UnknownScore
    ELSE IF cleaned_response = IntentValue(intent) THEN ExactScore
    ELSE IF IsSubstring(IntentValue(intent), cleaned_response) THEN SubstringScore
    ELSE OtherScore

\* IntentService._calculate_confidence
CalculateConfidence(cleaned_response, intent) ==
    IF cleaned_response = IntentValue(intent) THEN ExactScore
    ELSE IF intent = "UNKNOWN" THEN UnknownScore
    ELSE IF IsSubstring(IntentValue(intent), cleaned_response) THEN SubstringScore
    ELSE OtherScore

\* the cleaning steps of _parse_llm_response
CleanResponse(raw_response) == Strip(SubNonWord(Lower(Strip(raw_response))))

\* _parse_llm_response from the cleaned response on
ParseCleaned(cleaned_response) ==
    [intent |-> FromString(cleaned_response),
     confidence |-> CalculateConfidence(cleaned_response,
                                        FromString(cleaned_response))]

\* IntentService._parse_llm_response (no step of it raises on a str)
ParseLLMResponse(raw_response) == ParseCleaned(CleanResponse(raw_response))

(***************************************************************************)
(* services/prompt_manager.py: the example store and the prompt builder.   *)
(*                                                                         *)
(* The backing source is [kind, entries]: kind says what open/json.load    *)
(* meets, entries are the items of data["examples"] when kind is "ok".     *)
(* An item is [user_input, intent, confidence], or NotMapping.             *)
(***************************************************************************)
\* the bounds of FewShotExample.user_input
MinExampleLen == 1
MaxExampleLen == 500
\* settings.max_examples_in_prompt
MaxExamplesInPrompt == 5

NotMapping == [user_input |-> <<>>, intent |-> <<>>, confidence |-> None,
               mapping |-> FALSE]

Item(user_input, intent, confidence) ==
    [user_input |-> user_input, intent |-> intent, confidence |-> confidence,
     mapping |-> TRUE]

\* whether FewShotExample(**item) validates
IsValidItem(item) ==
    /\ item.mapping
    /\ Len(item.user_input) >= MinExampleLen
    /\ Len(item.user_input) <= MaxExampleLen
    /\ Strip(item.user_input) # <<>>
    /\ \E c \in IntentType : IntentValue(c) = item.intent
    /\ item.confidence.some =>
           (item.confidence.v >= 0 /\ item.confidence.v <= ScoreOne)

\* FewShotExample(**item) of a valid item
FewShotExample(item) ==
    [user_input |-> Strip(item.user_input),
     intent |-> CHOOSE c \in IntentType : IntentValue(c) = item.intent,
     confidence |-> item.confidence]

\* mutant of ParseItems: one invalid entry discards the whole list
ParseItemsAllOrNothing(items) ==
    IF \A i \in 1..Len(items) : IsValidItem(items[i])
    THEN [i \in 1..Len(items) |-> FewShotExample(items[i])]
    ELSE <<>>

\* the loop of load_examples over data["examples"]
ParseItems(items) ==
    LET valid == SelectSeq(items, IsValidItem)
    IN  [i \in 1..Len(valid) |-> FewShotExample(valid[i])]

\* the end of load_examples: the parsed examples, or the error of an empty list
CheckExamples(examples) ==
    IF examples = <<>>
    THEN [ok |-> FALSE,
          exc |-> ExamplesLoadException(<<"Nenhum exemplo válido encontrado">>)]
    ELSE [ok |-> TRUE, examples |-> examples]

\* the part of load_examples that reads the source: the list it caches and
\* returns, or the ExamplesLoadException it raises
ReadSource(src) ==
    CASE src.kind = "missing" ->
           [ok |-> FALSE, exc |-> ExamplesLoadException(<<"Arquivo não encontrado">>)]
      [] src.kind = "not_file" ->
           [ok |-> FALSE,
            exc |-> ExamplesLoadException(<<"Path não é um arquivo válido">>)]
      [] src.kind = "bad_json" ->
           [ok |-> FALSE,
            exc |-> ExamplesLoadException(<<"Erro ao decodificar JSON: ", "JSONDecodeError">>)]
      [] src.kind = "unreadable" ->
           [ok |-> FALSE,
            exc |-> ExamplesLoadException(<<"Erro inesperado: ", "OSError">>)]
      [] src.kind \in {"not_dict", "no_examples_key"} ->
           [ok |-> FALSE,
            exc |-> ExamplesLoadException(
                        <<"Estrutura JSON inválida. Esperado: {'examples': [...]}">>)]
      [] src.kind = "examples_not_list" ->
           [ok |-> FALSE,
            exc |-> ExamplesLoadException(<<"Campo 'examples' deve ser uma lista">>)]
      [] src.kind = "ok" -> CheckExamples(ParseItems(src.entries))

\* mutant of StoreExamples: a failed read leaves an empty list in the cache
StoreExamplesCachesEmpty(c, r) ==
    IF r.ok
    THEN [ok |-> TRUE, examples |-> r.examples, cache |-> Some(r.examples),
          read |-> TRUE]
    ELSE [ok |-> FALSE, exc |-> r.exc, cache |-> Some(<<>>), read |-> TRUE]

\* mutant of StoreExamples: the cache is filled before the read is complete
\* (it holds the first example only) while the caller gets the whole list
StoreExamplesCachesPartial(c, r) ==
    IF r.ok
    THEN [ok |-> TRUE, examples |-> r.examples,
          cache |-> Some(Take(r.examples, 1)), read |-> TRUE]
    ELSE [ok |-> FALSE, exc |-> r.exc, cache |-> c, read |-> TRUE]

\* load_examples after the read r of the source: it caches what was read
StoreExamples(c, r) ==
    IF r.ok
    THEN [ok |-> TRUE, examples |-> r.examples, cache |-> Some(r.examples),
          read |-> TRUE]
    ELSE [ok |-> FALSE, exc |-> r.exc, cache |-> c, read |-> TRUE]

\* mutant of LoadExamples: the cache is not consulted
LoadExamplesNoCache(c, src) == StoreExamples(c, ReadSource(src))

\* PromptManager.load_examples on cache c and source src:
\* [ok, examples | exc, cache (the cache afterwards), read (source was read)]
LoadExamples(c, src) ==
    IF c.some
    THEN [ok |-> TRUE, examples |-> c.v, cache |-> c, read |-> FALSE]
    ELSE StoreExamples(c, ReadSource(src))

\* mutant of ClearCache: the cache is emptied, not unset
ClearCacheEmptied(c) == Some(<<>>)

\* PromptManager.clear_cache: the cache afterwards
ClearCache(c) == None

\* PromptManager.reload_examples: clear_cache, then load_examples
ReloadExamples(c, src) == LoadExamples(ClearCache(c), src)

\* mutant of GetExamplesCount: an unset cache is reported as -1
GetExamplesCountUnsetNegative(c) ==
    IF c.some THEN Len(c.v) ELSE -1

\* PromptManager.get_examples_count
GetExamplesCount(c) == IF c.some THEN Len(c.v) ELSE 0

\* PromptManager.get_examples_by_intent
GetExamplesByIntent(c, intent) ==
    IF c.some THEN SelectSeq(c.v, LAMBDA ex : ex.intent = intent) ELSE <<>>

IntentMembers ==
    <<"GREETING", "FAREWELL", "QUESTION", "COMPLAINT", "COMPLIMENT", "REQUEST",
      "INFORMATION", "HELP", "CANCELLATION", "CONFIRMATION", "UNKNOWN">>

RECURSIVE JoinValues(_)
\* ", ".join(intent.value for intent in members)
JoinValues(members) ==
    IF members = <<>> THEN <<>>
    ELSE IF Len(members) = 1 THEN IntentValue(members[1])
    ELSE IntentValue(members[1]) \o <<", ">> \o JoinValues(Tail(members))

\* PromptManager.get_system_instruction, as its lines
GetSystemInstruction ==
    << <<"Você é um classificador de intenções de texto em português brasileiro.">>,
       <<>>,
       <<"Sua tarefa é analisar o texto fornecido pelo usuário e classificar a intenção em UMA das seguintes categorias:">>,
       JoinValues(IntentMembers),
       <<>>,
       <<"## Regras:">>,
       <<"1. Retorne APENAS o nome da categoria (exemplo: \"greeting\", \"question\", \"help\")">>,
       <<"2. NÃO inclua explicações, pontuação extra ou texto adicional">>,
       <<"3. A resposta deve ser uma única palavra em minúsculas">>,
       <<"4. Se não tiver certeza, retorne \"unknown\"">>,
       <<"5. Analise o contexto e o tom da mensagem para determinar a intenção correta">>,
       <<>>,
       <<"## Descrição das Intenções:">>,
       <<"- greeting: Saudações, cumprimentos iniciais">>,
       <<"- farewell: Despedidas, encerramentos">>,
       <<"- question: Perguntas ou dúvidas">>,
       <<"- complaint: Reclamações, insatisfações">>,
       <<"- compliment: Elogios, agradecimentos positivos">>,
       <<"- request: Solicitações, pedidos de ação">>,
       <<"- information: Fornecimento de informações">>,
       <<"- help: Pedidos de ajuda ou suporte">>,
       <<"- cancellation: Solicitações de cancelamento">>,
       <<"- confirmation: Confirmações ou validações">>,
       <<"- unknown: Intenção não identificada">> >>

RECURSIVE ExampleBlocks(_, _)
\* the blocks "Exemplo k:" / "Input: ..." / "Output: ..." / "" of build_prompt,
\* for the examples from index k on
ExampleBlocks(examples, k) ==
    IF k > Len(examples) THEN <<>>
    ELSE << <<"Exemplo ", ToString(k), ":">>,
            <<"Input: ">> \o examples[k].user_input,
            <<"Output: ">> \o IntentValue(examples[k].intent),
            <<>> >>
         \o ExampleBlocks(examples, k + 1)

\* the lines build_prompt joins, for the examples it was given or loaded
\* mutant of PromptLines: every example is included, whatever the maximum
PromptLinesAll(user_input, examples, max_examples) ==
    GetSystemInstruction
    \o << <<>>, <<"## Exemplos de Classificação:">>, <<>> >>
    \o ExampleBlocks(examples, 1)
    \o << <<"## Tarefa:">>, <<"Input: ">> \o user_input, <<"Output:">> >>

PromptLines(user_input, examples, max_examples) ==
    LET num_examples == IF max_examples.some /\ max_examples.v # 0
                        THEN max_examples.v ELSE MaxExamplesInPrompt
        selected_examples == Take(examples, num_examples)
    IN  GetSystemInstruction
        \o << <<>>, <<"## Exemplos de Classificação:">>, <<>> >>
        \o ExampleBlocks(selected_examples, 1)
        \o << <<"## Tarefa:">>, <<"Input: ">> \o user_input, <<"Output:">> >>

\* build_prompt after its load_examples call returned or raised l
BuildPromptWith(user_input, l) ==
    IF l.ok
    THEN [ok |-> TRUE, prompt |-> PromptLines(user_input, l.examples, None),
          cache |-> l.cache, read |-> l.read]
    ELSE [ok |-> FALSE,
          exc |-> PromptBuildException(
                      <<"Erro ao construir prompt: ">> \o Str(l.exc),
                      [user_input |-> Take(user_input, PreviewLen)]),
          cache |-> l.cache, read |-> l.read]

\* PromptManager.build_prompt(user_input) with examples=None on cache c and
\* source src: [ok, prompt | exc, cache, read]
\* build_prompt(user_input, examples, max_examples) with examples supplied by
\* the caller: nothing is loaded, the cache is not consulted
BuildPromptSupplied(user_input, examples, max_examples) ==
    [ok |-> TRUE, prompt |-> PromptLines(user_input, examples, max_examples)]

BuildPrompt(user_input, c, src) == BuildPromptWith(user_input, LoadExamples(c, src))

RECURSIVE SumLen(_)
\* the number of characters of a sequence of fragments
SumLen(frags) ==
    IF frags = <<>> THEN 0
    ELSE IF Len(frags) = 1 THEN Len(frags[1])
    ELSE LET h == Len(frags) \div 2
         IN  SumLen(SubSeq(frags, 1, h)) + SumLen(SubSeq(frags, h + 1, Len(frags)))

RECURSIVE LinesLen(_)
LinesLen(lines) == IF lines = <<>> THEN 0 ELSE SumLen(lines[1]) + LinesLen(Tail(lines))

\* len("\n".join(lines))
PromptLength(lines) == LinesLen(lines) + (Len(lines) - 1)

(***************************************************************************)
(* providers/gemini/client.py                                              *)
(*                                                                         *)
(* What the remote service does with one generate_content call is an       *)
(* event [kind, text]: it returns a payload ("no_candidates",              *)
(* "no_content", "no_parts", "bad_structure", or "text" with the text of   *)
(* the first part), or raises ("resource_exhausted", "google_api_error",   *)
(* "other_error").  Not answering at all is the absence of an event.       *)
(***************************************************************************)
Payload(kind, text) == [kind |-> kind, text |-> text]

\* GeminiClient._extract_text_from_response on a returned payload
ExtractTextFromResponse(response) ==
    CASE response.kind = "no_candidates" ->
           [ok |-> FALSE,
            exc |-> GeminiInvalidResponseException(<<"Resposta sem candidates">>)]
      [] response.kind \in {"no_content", "no_parts"} ->
           [ok |-> FALSE,
            exc |-> GeminiInvalidResponseException(<<"Candidate sem conteúdo">>)]
      [] response.kind = "bad_structure" ->
           [ok |-> FALSE,
            exc |-> GeminiInvalidResponseException(
                        <<"Estrutura de resposta inválida: ", "AttributeError">>)]
      [] response.kind = "text" ->
           IF Strip(response.text) = <<>>
           THEN [ok |-> FALSE,
                 exc |-> GeminiInvalidResponseException(<<"Texto vazio na resposta">>)]
           ELSE [ok |-> TRUE, text |-> Strip(response.text)]

\* the except clauses of generate_completion applied to what was raised inside
\* its try block: raised is the kind of the exception, msg its str()
CompletionHandler(raised, msg) ==
    CASE raised = "TimeoutError"      -> GeminiTimeoutException(Timeout)
      [] raised = "ResourceExhausted" -> GeminiRateLimitException
      [] raised = "GoogleAPIError"    -> GeminiAPIException(msg)
      [] OTHER                        -> GeminiAPIException(<<"Erro inesperado: ">> \o msg)

\* the end of generate_completion's try block: x is what
\* _extract_text_from_response returned or raised
CompletionOf(x) ==
    IF x.ok THEN [ok |-> TRUE, text |-> x.text]
    ELSE [ok |-> FALSE, exc |-> CompletionHandler(x.exc.type, Str(x.exc))]

\* GeminiClient.generate_completion once the awaited call has resolved with
\* event ev (ev.kind = "timeout" when asyncio.wait_for gave up):
\* [ok, text | exc]
GenerateCompletion(ev) ==
    CASE ev.kind = "timeout" ->
           [ok |-> FALSE, exc |-> CompletionHandler("TimeoutError", <<>>)]
      [] ev.kind = "resource_exhausted" ->
           [ok |-> FALSE,
            exc |-> CompletionHandler("ResourceExhausted", <<"429 quota">>)]
      [] ev.kind = "google_api_error" ->
           [ok |-> FALSE,
            exc |-> CompletionHandler("GoogleAPIError", <<"500 internal">>)]
      [] ev.kind = "other_error" ->
           [ok |-> FALSE,
            exc |-> CompletionHandler("ConnectionError", <<"connection reset">>)]
      [] OTHER -> CompletionOf(ExtractTextFromResponse(ev))

\* the try block of GeminiClient.health_check once the awaited probe call has
\* resolved with event ev: what _extract_text_from_response returned, or what
\* was raised (asyncio.TimeoutError when wait_for gave up, else the remote
\* call's exception)
HealthProbe(ev) ==
    CASE ev.kind = "timeout" ->
           [ok |-> FALSE, exc |-> [type |-> "TimeoutError"]]
      [] ev.kind \in {"resource_exhausted", "google_api_error", "other_error"} ->
           [ok |-> FALSE, exc |-> [type |-> ev.kind]]
      [] OTHER -> ExtractTextFromResponse(ev)

\* mutant of ProviderHealthCheck: any returned payload counts as healthy
ProviderHealthCheckNoExtract(ev) ==
    [raised |-> FALSE,
     value |-> ev.kind \notin {"timeout", "resource_exhausted",
                               "google_api_error", "other_error"}]

\* GeminiClient.health_check: True when the try block completed, False from
\* the except clause on any exception; [raised, value]
ProviderHealthCheck(ev) ==
    IF HealthProbe(ev).ok
    THEN [raised |-> FALSE, value |-> TRUE]
    ELSE [raised |-> FALSE, value |-> FALSE]

(***************************************************************************)
(* State.                                                                  *)
(***************************************************************************)
VARIABLES
    examples_cache,  \* PromptManager._examples_cache: None or Some(examples)
    source,          \* the backing source of the examples (the JSON file)
    op,              \* op[p]: the service call process p has in progress
    call,            \* call[p]: the frame of p's running or finished classify
    batch,           \* batch[p]: the frame of p's classify_batch
    probe,           \* a pure function applied to drawn arguments
    store            \* the last two calls made on the PromptManager directly

vars == <<examples_cache, source, op, call, batch, probe, store>>

(***************************************************************************)
(* IntentService.classify.  A frame records the call's arguments, where it *)
(* stands, the stages it went through, what it called and its outcome: a   *)
(* returned ClassificationResult or the exception it raised.               *)
(***************************************************************************)
NoEvent == Payload("none", <<>>)

EmptyCall ==
    [state |-> "none", user_input |-> <<>>, request_id |-> None, prompt |-> <<>>,
     elapsed |-> 0, stages |-> <<>>, gen_calls |-> 0, remote_calls |-> 0,
     reads |-> 0, event |-> NoEvent, outcome |-> NoError]

Returned(result) == [type |-> "ClassificationResult", result |-> result]

\* mutant of ClassifyExcept: every exception is re-raised as it is
ClassifyExceptBare(e, user_input, request_id, ms) == e

\* the except clauses of classify applied to exception e raised in its try
\* block, ms being the time measured since entry
ClassifyExcept(e, user_input, request_id, ms) ==
    IF e.type = "ValidationException" THEN e
    ELSE LET x == ClassificationFailedException(
                      Str(e),
                      [request_id |-> request_id,
                       input_preview |-> Take(user_input, PreviewLen),
                       processing_time_ms |-> ms])
         IN  [type |-> x.type, message |-> x.message, details |-> x.details,
              cause |-> e]

\* mutant of BeginWith: the prompt is built before the input is validated
BeginWithLateValidation(frame, v, b, c) ==
    IF ~b.ok
    THEN [call |-> [frame EXCEPT
                      !.state = "Failed",
                      !.stages = <<"PromptBuilding", "Failed">>,
                      !.reads = IF b.read THEN 1 ELSE 0,
                      !.outcome = ClassifyExcept(b.exc, frame.user_input,
                                                 frame.request_id, 0)],
          cache |-> b.cache]
    ELSE IF v.type # "none"
    THEN [call |-> [frame EXCEPT
                      !.state = "Failed",
                      !.stages = <<"PromptBuilding", "Validating", "Failed">>,
                      !.reads = IF b.read THEN 1 ELSE 0,
                      !.outcome = ClassifyExcept(v, frame.user_input,
                                                 frame.request_id, 0)],
          cache |-> b.cache]
    ELSE [call |-> [frame EXCEPT
                      !.state = "Completing",
                      !.stages = <<"PromptBuilding", "Validating", "Completing">>,
                      !.reads = IF b.read THEN 1 ELSE 0,
                      !.prompt = b.prompt,
                      !.gen_calls = 1,
                      !.remote_calls = 1],
          cache |-> b.cache]

\* classify up to its first suspension, v being what _validate_input raised
\* (or NoError) and b what build_prompt returned or raised
BeginWith(frame, v, b, c) ==
    IF v.type # "none"
    THEN [call |-> [frame EXCEPT
                      !.state = "Failed",
                      !.stages = <<"Validating", "Failed">>,
                      !.outcome = ClassifyExcept(v, frame.user_input,
                                                 frame.request_id, 0)],
          cache |-> c]
    ELSE IF ~b.ok
    THEN [call |-> [frame EXCEPT
                      !.state = "Failed",
                      !.stages = <<"Validating", "PromptBuilding", "Failed">>,
                      !.reads = IF b.read THEN 1 ELSE 0,
                      !.outcome = ClassifyExcept(b.exc, frame.user_input,
                                                 frame.request_id, 0)],
          cache |-> b.cache]
    ELSE [call |-> [frame EXCEPT
                      !.state = "Completing",
                      !.stages = <<"Validating", "PromptBuilding", "Completing">>,
                      !.reads = IF b.read THEN 1 ELSE 0,
                      !.prompt = b.prompt,
                      !.gen_calls = 1,
                      !.remote_calls = 1],
          cache |-> b.cache]

\* classify from its entry to its first suspension (the awaited remote call)
\* or to the exception raised before it, on cache c and source src:
\* [call (the frame), cache (the cache afterwards)]
BeginClassify(user_input, request_id, c, src) ==
    BeginWith([EmptyCall EXCEPT !.user_input = user_input,
                                !.request_id = request_id],
              ValidateInput(user_input),
              BuildPrompt(user_input, c, src),
              c)

\* the ClassificationResult classify assembles from the completion text
ResultOf(frame, text, parsed) ==
    ClassificationResult(parsed.intent, parsed.confidence, "", text, frame.elapsed,
                         [request_id |-> frame.request_id,
                          input_length |-> Len(frame.user_input),
                          prompt_length |-> PromptLength(frame.prompt)])

\* mutant of FinishWith: a failed completion is tried once more
FinishWithRetry(frame, ev, g) ==
    IF ~g.ok /\ frame.gen_calls < 2
    THEN [frame EXCEPT !.gen_calls = @ + 1, !.remote_calls = @ + 1, !.elapsed = 0]
    ELSE IF ~g.ok
    THEN [frame EXCEPT
            !.state = "Failed",
            !.stages = @ \o <<"Failed">>,
            !.event = ev,
            !.outcome = ClassifyExcept(g.exc, frame.user_input,
                                       frame.request_id, frame.elapsed)]
    ELSE [frame EXCEPT
            !.state = "Done",
            !.stages = @ \o <<"Parsing", "Done">>,
            !.event = ev,
            !.outcome = Returned(ResultOf(frame, g.text, ParseLLMResponse(g.text)))]

\* mutant of FinishWith: the result is assembled without a parsing stage
FinishWithoutParsing(frame, ev, g) ==
    IF ~g.ok
    THEN [frame EXCEPT
            !.state = "Failed",
            !.stages = @ \o <<"Failed">>,
            !.event = ev,
            !.outcome = ClassifyExcept(g.exc, frame.user_input,
                                       frame.request_id, frame.elapsed)]
    ELSE [frame EXCEPT
            !.state = "Done",
            !.stages = @ \o <<"Done">>,
            !.event = ev,
            !.outcome = Returned(ResultOf(frame, g.text, ParseLLMResponse(g.text)))]

\* classify after generate_completion returned or raised g
FinishWith(frame, ev, g) ==
    IF ~g.ok
    THEN [frame EXCEPT
            !.state = "Failed",
            !.stages = @ \o <<"Failed">>,
            !.event = ev,
            !.outcome = ClassifyExcept(g.exc, frame.user_input,
                                       frame.request_id, frame.elapsed)]
    ELSE [frame EXCEPT
            !.state = "Done",
            !.stages = @ \o <<"Parsing", "Done">>,
            !.event = ev,
            !.outcome = Returned(ResultOf(frame, g.text, ParseLLMResponse(g.text)))]

\* classify from the resolution of the awaited remote call (event ev) to its
\* return or raise
FinishClassify(frame, ev) == FinishWith(frame, ev, GenerateCompletion(ev))

\* mutant of TimedOut: the remote call is awaited without a timeout
NeverTimedOut(elapsed) == FALSE

\* whether asyncio.wait_for(..., timeout=self.timeout) has run out
TimedOut(elapsed) == elapsed >= Timeout

(***************************************************************************)
(* IntentService.classify_batch.                                           *)
(***************************************************************************)
\* calls is the history of the loop: the finished classify frame of each item;
\* fail_on_first_error is the flag of the request the batch endpoint serves
\* the response of the batch endpoint before it is assembled
NoResponse ==
    [total_processed |-> 0, total_successful |-> 0, total_failed |-> 0,
     errors |-> None]

EmptyBatch ==
    [user_inputs |-> <<>>, request_id |-> None, idx |-> 0, results |-> <<>>,
     errors |-> <<>>, calls |-> <<>>, raised |-> NoError, returned |-> FALSE,
     response |-> NoResponse, fail_on_first_error |-> FALSE]

\* the results the endpoint counts as successful
SuccessfulResults(results) ==
    {i \in 1..Len(results) :
         results[i].intent # "UNKNOWN" \/ results[i].confidence > 0}

\* the results the endpoint lists in errors
ErrorResults(results) ==
    {i \in 1..Len(results) :
         results[i].intent = "UNKNOWN" /\ results[i].confidence = 0}

\* result.metadata.get("error", "Unknown error")
ErrorInfo(result) ==
    IF "error" \in DOMAIN result.metadata
    THEN result.metadata.error
    ELSE <<"Unknown error">>

\* the errors list of the endpoint, in the order of the results
ErrorEntries(texts, results) ==
    LET Listed(i) == i \in ErrorResults(results)
        idxs == SelectSeq([i \in 1..Len(results) |-> i], Listed)
    IN  [k \in 1..Len(idxs) |->
             [index |-> idxs[k] - 1, text |-> Take(texts[idxs[k]], PreviewLen),
              error |-> ErrorInfo(results[idxs[k]])]]

\* what classify_intent_batch assembles from the results of classify_batch
BatchResponse(texts, results) ==
    [total_processed |-> Len(texts),
     total_successful |-> Cardinality(SuccessfulResults(results)),
     total_failed |-> Len(results) - Cardinality(SuccessfulResults(results)),
     errors |-> IF ErrorResults(results) = {} THEN None
                ELSE Some(ErrorEntries(texts, results))]

\* mutant of SubRequestId: every item gets the id of the batch
SubRequestIdOfBatch(request_id, idx) == request_id

\* f"{request_id}_item_{idx}" if request_id else None
SubRequestId(request_id, idx) ==
    IF request_id.some /\ request_id.v # <<>>
    THEN Some(request_id.v \o <<"_item_", ToString(idx)>>)
    ELSE None

\* the result the except clause of the loop appends for exception e
FailedItemResult(e, sub_request_id) ==
    ClassificationResult("UNKNOWN", 0, "", <<>>, 0,
                         [request_id |-> sub_request_id, error |-> Str(e)])

\* mutant of RecordItem: a failed item is skipped, nothing is appended for it
RecordItemDropsFailed(b, frame) ==
    IF frame.outcome.type # "ClassificationResult"
    THEN [b EXCEPT
            !.idx = @ + 1,
            !.calls = Append(@, frame),
            !.errors = Append(@, [index |-> b.idx,
                                  input |-> Take(frame.user_input, PreviewLen),
                                  error |-> Str(frame.outcome)])]
    ELSE [b EXCEPT
            !.idx = @ + 1,
            !.calls = Append(@, frame),
            !.results = Append(@, frame.outcome.result)]

\* mutant of RecordItem: the exception of a failed item leaves classify_batch
RecordItemRaises(b, frame) ==
    IF frame.outcome.type # "ClassificationResult"
    THEN [b EXCEPT !.calls = Append(@, frame), !.raised = frame.outcome]
    ELSE [b EXCEPT
            !.idx = @ + 1,
            !.calls = Append(@, frame),
            !.results = Append(@, frame.outcome.result)]

\* mutant of RecordItem: when the request asks for it, the loop is left at
\* the first failed item
RecordItemStopsAtFailure(b, frame) ==
    IF frame.outcome.type # "ClassificationResult"
    THEN [b EXCEPT
            !.idx = IF b.fail_on_first_error THEN Len(b.user_inputs) ELSE @ + 1,
            !.calls = Append(@, frame),
            !.results = Append(@, FailedItemResult(frame.outcome, frame.request_id)),
            !.errors = Append(@, [index |-> b.idx,
                                  input |-> Take(frame.user_input, PreviewLen),
                                  error |-> Str(frame.outcome)])]
    ELSE [b EXCEPT
            !.idx = @ + 1,
            !.calls = Append(@, frame),
            !.results = Append(@, frame.outcome.result)]

\* one iteration's end: the frame of the finished classify of item b.idx is
\* recorded in the batch frame b
RecordItem(b, frame) ==
    IF frame.outcome.type # "ClassificationResult"
    THEN [b EXCEPT
            !.idx = @ + 1,
            !.calls = Append(@, frame),
            !.results = Append(@, FailedItemResult(frame.outcome, frame.request_id)),
            !.errors = Append(@, [index |-> b.idx,
                                  input |-> Take(frame.user_input, PreviewLen),
                                  error |-> Str(frame.outcome)])]
    ELSE [b EXCEPT
            !.idx = @ + 1,
            !.calls = Append(@, frame),
            !.results = Append(@, frame.outcome.result)]

\* IntentService.get_statistics on example cache c
GetStatistics(c) ==
    [model |-> "gemini-2.5-flash",
     examples_loaded |-> GetExamplesCount(c),
     supported_intents |-> [i \in 1..Len(IntentMembers) |->
                                IntentValue(IntentMembers[i])]]

(***************************************************************************)
(* IntentService.health_check: llm is what the provider's health_check     *)
(* gave, l what load_examples gave (evaluated only when it is called).     *)
(* The result is [raised, value, cache, loaded]: cache is the example      *)
(* cache afterwards, loaded whether load_examples was called.              *)
(***************************************************************************)
\* mutant of HealthCheckWith: the examples are not looked at
HealthCheckWithoutExamples(llm, l, c) ==
    [raised |-> FALSE, value |-> llm.value, cache |-> c, loaded |-> FALSE]

HealthCheckWith(llm, l, c) ==
    IF llm.raised
    THEN [raised |-> FALSE, value |-> FALSE, cache |-> c, loaded |-> FALSE]
    ELSE IF ~llm.value
    THEN [raised |-> FALSE, value |-> FALSE, cache |-> c, loaded |-> FALSE]
    ELSE IF ~l.ok
    THEN [raised |-> FALSE, value |-> FALSE, cache |-> l.cache, loaded |-> TRUE]
    ELSE IF Len(l.examples) = 0
    THEN [raised |-> FALSE, value |-> FALSE, cache |-> l.cache, loaded |-> TRUE]
    ELSE [raised |-> FALSE, value |-> TRUE, cache |-> l.cache, loaded |-> TRUE]

HealthCheck(ev, c, src) ==
    HealthCheckWith(ProviderHealthCheck(ev), LoadExamples(c, src), c)

(***************************************************************************)
(* main.py: the GET /health handler.                                       *)
(***************************************************************************)
\* get_intent_service(llm_provider, prompt_manager) called with the given
\* number of arguments: both parameters are required
GetIntentService(given) ==
    IF given = 2 THEN [ok |-> TRUE]
    ELSE [ok |-> FALSE,
          exc |-> [type |-> "TypeError",
                   message |-> <<"get_intent_service() missing 2 required positional arguments: 'llm_provider' and 'prompt_manager'">>,
                   details |-> <<>>]]

\* the response the handler's except clause returns
HealthFailure(e, c) ==
    [status |-> "unhealthy",
     checks |-> [llm_provider |-> FALSE, examples_loaded |-> FALSE,
                 configuration |-> FALSE],
     error |-> Some(e.type),
     cache |-> c]

\* the response assembled at the end of the try block
HealthResponse(is_healthy, examples_count, c) ==
    [status |-> IF is_healthy /\ examples_count > 0 THEN "healthy" ELSE "degraded",
     checks |-> [llm_provider |-> is_healthy,
                 examples_loaded |-> examples_count > 0,
                 configuration |-> TRUE],
     error |-> None,
     cache |-> c]

\* the handler from the obtained service on: svc is what get_intent_service
\* gave, h what intent_service.health_check gave, l what the handler's own
\* load_examples gave (called when no example is counted)
HealthEndpointWith(svc, h, l, c) ==
    IF ~svc.ok THEN HealthFailure(svc.exc, c)
    ELSE IF GetExamplesCount(h.cache) # 0
    THEN HealthResponse(h.value, GetExamplesCount(h.cache), h.cache)
    ELSE IF ~l.ok THEN HealthFailure(l.exc, l.cache)
    ELSE HealthResponse(h.value, Len(l.examples), l.cache)

\* GET /health when the provider's probe call resolves with ev, on example
\* cache c and source src: the handler calls get_intent_service()
HealthEndpoint(ev, c, src) ==
    HealthEndpointWith(GetIntentService(0),
                       HealthCheck(ev, c, src),
                       LoadExamples(HealthCheck(ev, c, src).cache, src),
                       c)

(***************************************************************************)
(* Inputs of the model.                                                    *)
(***************************************************************************)
Oi == <<"O", "i", "!">>
NoAlnumText == <<"!", "!">>
BlankText == <<" ", " ">>
LongText == Repeat("a", PreviewLen + 1)

\* the texts a caller passes to classify
ClassifyTexts == {Oi, NoAlnumText, BlankText, <<>>, LongText}
\* the texts of a batch
BatchTexts == {Oi, NoAlnumText}

BatchInputs == UNION {[1..n -> BatchTexts] : n \in 0..MaxBatch}

RequestIds == {None, Some(<<"req-1">>)}

Greeting == <<"g", "r", "e", "e", "t", "i", "n", "g">>

\* what the remote service may answer to one call
RemoteEvents ==
    {Payload("text", Greeting),
     Payload("text", <<"H", "e", "l", "p", "!">>),
     Payload("text", <<"_">> \o Greeting \o <<"_">>),
     Payload("text", <<"x", "y", "z", "1", "2", "3", "q", "q", "q">>),
     Payload("text", <<"u", "n", "k", "n", "o", "w", "n">>),
     Payload("text", <<" ", "\n">>),
     Payload("no_candidates", <<>>),
     Payload("no_parts", <<>>),
     Payload("resource_exhausted", <<>>),
     Payload("google_api_error", <<>>),
     Payload("other_error", <<>>)}

MissingSource == [kind |-> "missing", entries |-> <<>>]

SourceA ==
    [kind |-> "ok",
     entries |-> <<Item(<<" ", "O", "i", "!">>, Greeting, None),
                   Item(<<" ">>, Greeting, None),
                   Item(<<"T", "c", "h", "a", "u">>,
                        <<"f", "a", "r", "e", "w", "e", "l", "l">>, Some(9000))>>]

SourceB ==
    [kind |-> "ok",
     entries |-> <<Item(<<"S", "o", "s">>, <<"h", "e", "l", "p">>, None)>>]

InvalidSource ==
    [kind |-> "ok",
     entries |-> <<NotMapping,
                   Item(<<"O", "i">>, <<"G", "r", "e", "e", "t", "i", "n", "g">>, None)>>]

Sources == {MissingSource, SourceA, SourceB, InvalidSource}

NoProbe == [fn |-> "none", applied |-> FALSE]

\* sources that cannot be loaded, one for each check of load_examples
NotFileSource == [kind |-> "not_file", entries |-> <<>>]
BadJsonSource == [kind |-> "bad_json", entries |-> <<>>]
UnreadableSource == [kind |-> "unreadable", entries |-> <<>>]
NotDictSource == [kind |-> "not_dict", entries |-> <<>>]
NoExamplesKeySource == [kind |-> "no_examples_key", entries |-> <<>>]
ExamplesNotListSource == [kind |-> "examples_not_list", entries |-> <<>>]
EmptyListSource == [kind |-> "ok", entries |-> <<>>]

\* a source of mixed entries: too long, bad confidence, valid, unknown intent
SourceC ==
    [kind |-> "ok",
     entries |-> <<Item(Repeat("a", MaxExampleLen + 1), Greeting, None),
                   Item(<<"O", "i">>, Greeting, Some(ScoreOne + 1)),
                   Item(Repeat("b", MaxExampleLen), Greeting, Some(ScoreOne)),
                   Item(<<"O", "i">>, <<"h", "i">>, None),
                   Item(<<"S", "o", "s", "\n">>, <<"h", "e", "l", "p">>, Some(0))>>]

StoreSources ==
    Sources \cup {NotFileSource, BadJsonSource, UnreadableSource, NotDictSource,
                  NoExamplesKeySource, ExamplesNotListSource, EmptyListSource,
                  SourceC}

\* the record of one call made on the PromptManager: the cache before and
\* after it, the source at the time, whether the source was read, and what the
\* call returned (examples or count) or raised (exc)
NoStoreCall ==
    [op |-> "none", intent |-> "UNKNOWN", src |-> MissingSource, before |-> None,
     after |-> None, read |-> FALSE, ok |-> TRUE, examples |-> <<>>,
     exc |-> NoError, count |-> 0]

NoStoreCalls == [prev |-> NoStoreCall, last |-> NoStoreCall]

\* the record of load_examples or reload_examples with outcome l
LoadCalled(name, c, src, l) ==
    [op |-> name, intent |-> "UNKNOWN", src |-> src, before |-> c,
     after |-> l.cache, read |-> l.read, ok |-> l.ok,
     examples |-> IF l.ok THEN l.examples ELSE <<>>,
     exc |-> IF l.ok THEN NoError ELSE l.exc, count |-> 0]

\* the record of a call that returns without reading the source
Answered(name, intent, c, src, after, examples, count) ==
    [op |-> name, intent |-> intent, src |-> src, before |-> c, after |-> after,
     read |-> FALSE, ok |-> TRUE, examples |-> examples, exc |-> NoError,
     count |-> count]

(***************************************************************************)
(* The service: one caller (process 1) issuing calls one after the other,  *)
(* the remote completion service, the clock and the example source.        *)
(***************************************************************************)
Callers == {1}

Init ==
    /\ examples_cache = None
    /\ source = SourceA
    /\ op = [p \in Procs |-> "idle"]
    /\ call = [p \in Procs |-> EmptyCall]
    /\ batch = [p \in Procs |-> EmptyBatch]
    /\ probe = NoProbe
    /\ store = NoStoreCalls

\* classify of p has run to its suspension or raise b; inside classify_batch a
\* raise is recorded by the loop
Started(p, b) ==
    /\ examples_cache' = b.cache
    /\ IF op[p] = "classify_batch" /\ b.call.state # "Completing"
       THEN /\ batch' = [batch EXCEPT ![p] = RecordItem(batch[p], b.call)]
            /\ UNCHANGED call
       ELSE /\ call' = [call EXCEPT ![p] = b.call]
            /\ UNCHANGED batch

\* p calls classify(user_input, request_id); it runs to the awaited remote call
Classify(p, user_input, request_id) ==
    /\ op[p] = "idle"
    /\ op' = [op EXCEPT ![p] = "classify"]
    /\ Started(p, BeginClassify(user_input, request_id, examples_cache, source))
    /\ UNCHANGED <<source, probe, store>>

\* time passes for p's pending remote call
Tick(p) ==
    /\ call[p].state = "Completing"
    /\ call[p].elapsed < Timeout
    /\ call' = [call EXCEPT ![p].elapsed = @ + 1]
    /\ UNCHANGED <<examples_cache, source, op, batch, probe, store>>

\* p's classify resumes with event ev; inside classify_batch the loop goes on
\* to record the item
Resumed(p, frame) ==
    IF op[p] = "classify_batch" /\ frame.state # "Completing"
    THEN /\ batch' = [batch EXCEPT ![p] = RecordItem(batch[p], frame)]
         /\ call' = [call EXCEPT ![p] = EmptyCall]
    ELSE /\ call' = [call EXCEPT ![p] = frame]
         /\ UNCHANGED batch

\* the remote service answers p's call before the timeout
RemoteAnswers(p, ev) ==
    /\ call[p].state = "Completing"
    /\ ~TimedOut(call[p].elapsed)
    /\ Resumed(p, FinishClassify(call[p], ev))
    /\ UNCHANGED <<examples_cache, source, op, probe, store>>

\* mutant of WaitForTimesOut: a pending call of an earlier process holds the
\* event loop, so the timeout of p's call is not delivered
WaitForTimesOutInTurn(p) ==
    /\ call[p].state = "Completing"
    /\ TimedOut(call[p].elapsed)
    /\ \A q \in Procs : q < p => call[q].state # "Completing"
    /\ Resumed(p, FinishClassify(call[p], Payload("timeout", <<>>)))
    /\ UNCHANGED <<examples_cache, source, op, probe, store>>

\* asyncio.wait_for gives up on p's call
WaitForTimesOut(p) ==
    /\ call[p].state = "Completing"
    /\ TimedOut(call[p].elapsed)
    /\ Resumed(p, FinishClassify(call[p], Payload("timeout", <<>>)))
    /\ UNCHANGED <<examples_cache, source, op, probe, store>>

\* the batch endpoint, serving p's request, calls
\* classify_batch(user_inputs, request_id): the request's fail_on_first_error
\* is not handed on
ClassifyBatch(p, user_inputs, request_id, fail_on_first_error) ==
    /\ op[p] = "idle"
    /\ op' = [op EXCEPT ![p] = "classify_batch"]
    /\ batch' = [batch EXCEPT ![p] = [EmptyBatch EXCEPT
                                        !.user_inputs = user_inputs,
                                        !.request_id = request_id,
                                        !.fail_on_first_error = fail_on_first_error]]
    /\ UNCHANGED <<examples_cache, source, call, probe, store>>

\* the loop of classify_batch starts the classify of the next item
BatchItem(p) ==
    /\ op[p] = "classify_batch"
    /\ call[p].state = "none"
    /\ batch[p].raised = NoError
    /\ batch[p].idx < Len(batch[p].user_inputs)
    /\ Started(p, BeginClassify(batch[p].user_inputs[batch[p].idx + 1],
                                SubRequestId(batch[p].request_id, batch[p].idx),
                                examples_cache, source))
    /\ UNCHANGED <<source, op, probe, store>>

\* the loop is over: classify_batch returns results, and the batch endpoint
\* counts them into its response
BatchReturn(p) ==
    /\ op[p] = "classify_batch"
    /\ call[p].state = "none"
    /\ ~batch[p].returned
    /\ batch[p].raised = NoError
    /\ batch[p].idx = Len(batch[p].user_inputs)
    /\ batch' = [batch EXCEPT
                   ![p].returned = TRUE,
                   ![p].response = BatchResponse(batch[p].user_inputs,
                                                 batch[p].results)]
    /\ UNCHANGED <<examples_cache, source, op, call, probe, store>>

\* the caller has taken the outcome of its call and may call again
CallerProceeds(p) ==
    /\ \/ op[p] = "classify" /\ call[p].state \in {"Done", "Failed"}
       \/ op[p] = "classify_batch" /\ (batch[p].returned \/ batch[p].raised # NoError)
    /\ op' = [op EXCEPT ![p] = "idle"]
    /\ call' = [call EXCEPT ![p] = EmptyCall]
    /\ batch' = [batch EXCEPT ![p] = EmptyBatch]
    /\ UNCHANGED <<examples_cache, source, probe, store>>

\* the examples file is replaced, removed or corrupted
SourceChanges(s) ==
    /\ s # source
    /\ source' = s
    /\ UNCHANGED <<examples_cache, op, call, batch, probe, store>>

Next ==
    \/ \E p \in Callers, t \in ClassifyTexts, r \in RequestIds : Classify(p, t, r)
    \/ \E p \in Callers : Tick(p)
    \/ \E p \in Callers, ev \in RemoteEvents : RemoteAnswers(p, ev)
    \/ \E p \in Callers : WaitForTimesOut(p)
    \/ \E p \in Callers, ts \in BatchInputs, r \in RequestIds, f \in BOOLEAN :
           ClassifyBatch(p, ts, r, f)
    \/ \E p \in Callers : BatchItem(p)
    \/ \E p \in Callers : BatchReturn(p)
    \/ \E p \in Callers : CallerProceeds(p)
    \/ \E s \in Sources : SourceChanges(s)

Spec == Init /\ [][Next]_vars

(***************************************************************************)
(* The service with the scheduling the event loop and the clock guarantee: *)
(* time passes for a pending call, and a call whose timeout has run out is *)
(* resumed.                                                                *)
(***************************************************************************)
Fairness ==
    \A p \in Callers : WF_vars(Tick(p)) /\ WF_vars(WaitForTimesOut(p))

LiveSpec == Init /\ [][Next]_vars /\ Fairness

(***************************************************************************)
(* Concurrent requests: every process is a request handler running         *)
(* classify on the one IntentService, PromptManager and GeminiClient of    *)
(* the application.  The handlers interleave at the awaited remote call,   *)
(* each remote call running on its own executor thread.  The example       *)
(* source is whatever it is when the application starts and stays so.      *)
(***************************************************************************)
ConcInit ==
    /\ examples_cache = None
    /\ source \in Sources
    /\ op = [p \in Procs |-> "idle"]
    /\ call = [p \in Procs |-> EmptyCall]
    /\ batch = [p \in Procs |-> EmptyBatch]
    /\ probe = NoProbe
    /\ store = NoStoreCalls

\* what the remote service does with a call of a concurrent request
ConcEvents ==
    {Payload("text", Greeting),
     Payload("text", <<"x", "y", "z", "1", "2", "3", "q", "q", "q">>),
     Payload("google_api_error", <<>>)}

ConcNext ==
    \/ \E p \in Procs, t \in ClassifyTexts, r \in RequestIds : Classify(p, t, r)
    \/ \E p \in Procs : Tick(p)
    \/ \E p \in Procs, ev \in ConcEvents : RemoteAnswers(p, ev)
    \/ \E p \in Procs : WaitForTimesOut(p)
    \/ \E p \in Procs : CallerProceeds(p)

ConcSpec == ConcInit /\ [][ConcNext]_vars

(***************************************************************************)
(* Concurrent requests when the event loop and the clock run for one of    *)
(* them (time passes for its pending call, and asyncio.wait_for gives up   *)
(* when the timeout has run out) and nothing is known of the calls of the  *)
(* others: they may stay pending for ever.                                 *)
(***************************************************************************)
\* the request that is followed
Served == NumProcs

ServedFairness ==
    /\ WF_vars(Tick(Served))
    /\ WF_vars(WaitForTimesOut(Served))

ConcLiveSpec == ConcInit /\ [][ConcNext]_vars /\ ServedFairness

(***************************************************************************)
(* The Example Store called directly: load, reload, clear, count and        *)
(* filter, each running to its end without suspending, while the source    *)
(* changes between the calls.                                              *)
(***************************************************************************)
\* a call on the PromptManager ran with record e
StoreCalled(e) ==
    /\ store' = [prev |-> store.last, last |-> e]
    /\ examples_cache' = e.after
    /\ UNCHANGED <<source, op, call, batch, probe>>

\* the calls on the store are made by a caller that has no service call running
StoreIdle == \A p \in Callers : op[p] = "idle"

LoadExamplesCall ==
    /\ StoreIdle
    /\ StoreCalled(LoadCalled("load_examples", examples_cache, source,
                              LoadExamples(examples_cache, source)))

ReloadExamplesCall ==
    /\ StoreIdle
    /\ StoreCalled(LoadCalled("reload_examples", examples_cache, source,
                              ReloadExamples(examples_cache, source)))

ClearCacheCall ==
    /\ StoreIdle
    /\ StoreCalled(Answered("clear_cache", "UNKNOWN", examples_cache, source,
                            ClearCache(examples_cache), <<>>, 0))

GetExamplesCountCall ==
    /\ StoreIdle
    /\ StoreCalled(Answered("get_examples_count", "UNKNOWN", examples_cache,
                            source, examples_cache, <<>>,
                            GetExamplesCount(examples_cache)))

GetStatisticsCall ==
    /\ StoreIdle
    /\ StoreCalled(Answered("get_statistics", "UNKNOWN", examples_cache, source,
                            examples_cache, <<>>,
                            GetStatistics(examples_cache).examples_loaded))

GetExamplesByIntentCall(intent) ==
    /\ StoreIdle
    /\ StoreCalled(Answered("get_examples_by_intent", intent, examples_cache,
                            source, examples_cache,
                            GetExamplesByIntent(examples_cache, intent), 0))

FilterIntents == {"GREETING", "HELP"}

StoreNext ==
    \/ LoadExamplesCall
    \/ ReloadExamplesCall
    \/ ClearCacheCall
    \/ GetExamplesCountCall
    \/ GetStatisticsCall
    \/ \E intent \in FilterIntents : GetExamplesByIntentCall(intent)
    \/ \E s \in Sources : SourceChanges(s)

StoreSpec == Init /\ [][StoreNext]_vars

(***************************************************************************)
(* Pure functions applied to drawn arguments.                              *)
(***************************************************************************)
ProbeScores ==
    {0, 1, 2999, 3000, 4999, 5000, 5001, 7000, 7999, 8000, 8500, 9500, 10000}

\* values given for confidence_level: str values and ConfidenceLevel members
ProbeLevels == {"", "high", "medium", "low", "HIGH", "MEDIUM", "LOW"}

ConstructorProbes ==
    {[fn |-> "ClassificationResult", confidence |-> c, level |-> v,
      applied |-> FALSE, out |-> NoError] : c \in ProbeScores, v \in ProbeLevels}

\* raw completion texts: category values and other words, in several letter
\* cases, bare or surrounded by whitespace and punctuation
ProbeWords ==
    {<<"g", "r", "e", "e", "t", "i", "n", "g">>,
     <<"G", "R", "E", "E", "T", "I", "N", "G">>,
     <<"H", "e", "l", "p">>,
     <<"u", "n", "k", "n", "o", "w", "n">>,
     <<"x", "y", "z", "1", "2", "3", "q", "q", "q">>,
     <<"h", "e", "l", "p", " ", "m", "e">>,
     <<"h", "e", "l", "p", "e", "r">>,
     <<"h", "e", ".", "l", "p">>,
     <<"h", "e", "_", "l", "p">>,
     <<>>}

ProbeAffixes == {<<>>, <<" ">>, <<"!">>, <<"_">>, <<"\n", ".">>}

RawTexts == {a \o w \o b : a \in ProbeAffixes, w \in ProbeWords, b \in ProbeAffixes}

ParserProbes ==
    {[fn |-> "_parse_llm_response", raw_response |-> t, applied |-> FALSE,
      out |-> NoError] : t \in RawTexts}

\* inputs of the validation: short texts and texts around the length limit
ValidatedTexts ==
    {<<>>, <<" ">>, <<" ", "\n", "\t">>, <<"!">>, <<"?", "!", " ", ".">>, <<"_">>,
     <<"a">>, <<" ", "7", " ">>, <<"O", "i", "!">>,
     Repeat("a", MaxInputLen - 1), Repeat("a", MaxInputLen),
     Repeat("a", MaxInputLen + 1), Repeat("!", MaxInputLen + 1),
     Repeat(" ", MaxInputLen + 1),
     Repeat("!", MaxInputLen - 1) \o <<"a">>,
     Repeat(" ", MaxInputLen) \o <<"a">>,
     <<"a">> \o Repeat(" ", MaxInputLen)}

ValidatorProbes ==
    {[fn |-> "_validate_input", user_input |-> t, applied |-> FALSE,
      out |-> NoError] : t \in ValidatedTexts}

\* load_examples of a PromptManager whose cache is empty, on each source
LoaderProbes ==
    {[fn |-> "load_examples", src |-> x, applied |-> FALSE, out |-> NoError]
         : x \in StoreSources}

\* examples a caller supplies to build_prompt: more of them than any maximum
ProbeExamples ==
    << [user_input |-> <<"O", "i">>, intent |-> "GREETING", confidence |-> None],
       [user_input |-> <<"S", "o", "s">>, intent |-> "HELP", confidence |-> None],
       [user_input |-> <<"T", "c", "h", "a", "u">>, intent |-> "FAREWELL",
        confidence |-> Some(9000)],
       [user_input |-> <<"O", "l", "a">>, intent |-> "GREETING", confidence |-> None],
       [user_input |-> <<"?">>, intent |-> "UNKNOWN", confidence |-> None],
       [user_input |-> <<"A", "t", "e">>, intent |-> "FAREWELL", confidence |-> None],
       [user_input |-> <<"O", "i">>, intent |-> "HELP", confidence |-> Some(0)] >>

Reverse(s) == [i \in 1..Len(s) |-> s[Len(s) + 1 - i]]

SuppliedExamples ==
    {Take(ProbeExamples, n) : n \in 0..Len(ProbeExamples)}
        \cup {Take(Reverse(ProbeExamples), n) : n \in 2..Len(ProbeExamples)}

\* max_examples arguments: absent, or a number of the accepted range
ProbeMaxExamples == {None, Some(1), Some(2), Some(6), Some(20)}

\* build_prompt with supplied examples, and with none supplied (they are then
\* loaded from the source by a PromptManager whose cache is empty)
BuilderProbes ==
    {[fn |-> "build_prompt", user_input |-> t, examples |-> Some(e),
      max_examples |-> m, src |-> MissingSource, applied |-> FALSE,
      out |-> NoError]
         : t \in {Oi, <<>>}, e \in SuppliedExamples, m \in ProbeMaxExamples}
    \cup
    {[fn |-> "build_prompt", user_input |-> Oi, examples |-> None,
      max_examples |-> None, src |-> x, applied |-> FALSE, out |-> NoError]
         : x \in StoreSources}

\* what the remote service does with the probe call of a health check
HealthEvents ==
    RemoteEvents
        \cup {Payload("timeout", <<>>), Payload("no_content", <<>>),
              Payload("bad_structure", <<>>), Payload("text", <<"O", "K">>),
              Payload("text", <<>>)}

ProviderHealthProbes ==
    {[fn |-> "GeminiClient.health_check", ev |-> e, applied |-> FALSE,
      out |-> NoError] : e \in HealthEvents}

\* example caches a health check may meet: empty, or filled by an earlier load
ProbeCaches == {None, LoadExamples(None, SourceA).cache}

ServiceHealthProbes ==
    {[fn |-> "IntentService.health_check", ev |-> e, cache |-> c, src |-> x,
      applied |-> FALSE, out |-> NoError]
         : e \in HealthEvents, c \in ProbeCaches, x \in StoreSources}

EndpointHealthProbes ==
    {[fn |-> "GET /health", ev |-> e, cache |-> c, src |-> x,
      applied |-> FALSE, out |-> NoError]
         : e \in HealthEvents, c \in ProbeCaches, x \in StoreSources}

PureInit ==
    /\ examples_cache = None
    /\ source = SourceA
    /\ op = [p \in Procs |-> "idle"]
    /\ call = [p \in Procs |-> EmptyCall]
    /\ batch = [p \in Procs |-> EmptyBatch]
    /\ probe \in ConstructorProbes \cup ParserProbes \cup ValidatorProbes
                 \cup LoaderProbes \cup BuilderProbes
                 \cup ProviderHealthProbes \cup ServiceHealthProbes
                 \cup EndpointHealthProbes
    /\ store = NoStoreCalls

\* ClassificationResult(confidence=..., confidence_level=...) is constructed
Construct ==
    /\ probe.fn = "ClassificationResult"
    /\ ~probe.applied
    /\ probe' = [probe EXCEPT
                   !.applied = TRUE,
                   !.out = ClassificationResult("UNKNOWN", probe.confidence,
                                                probe.level, <<>>, 0,
                                                [request_id |-> None])]
    /\ UNCHANGED <<examples_cache, source, op, call, batch, store>>

\* _parse_llm_response(raw_response) is called
Parse ==
    /\ probe.fn = "_parse_llm_response"
    /\ ~probe.applied
    /\ probe' = [probe EXCEPT !.applied = TRUE,
                              !.out = ParseLLMResponse(probe.raw_response)]
    /\ UNCHANGED <<examples_cache, source, op, call, batch, store>>

\* _validate_input(user_input) is called: out is the exception it raises, or
\* NoError when it returns
Validate ==
    /\ probe.fn = "_validate_input"
    /\ ~probe.applied
    /\ probe' = [probe EXCEPT !.applied = TRUE,
                              !.out = ValidateInput(probe.user_input)]
    /\ UNCHANGED <<examples_cache, source, op, call, batch, store>>

\* load_examples() is called on an empty cache: out is its outcome
Load ==
    /\ probe.fn = "load_examples"
    /\ ~probe.applied
    /\ probe' = [probe EXCEPT !.applied = TRUE,
                              !.out = LoadExamples(None, probe.src)]
    /\ UNCHANGED <<examples_cache, source, op, call, batch, store>>

\* build_prompt(user_input, examples, max_examples) is called
Build ==
    /\ probe.fn = "build_prompt"
    /\ ~probe.applied
    /\ probe' = [probe EXCEPT
                   !.applied = TRUE,
                   !.out = IF probe.examples.some
                           THEN BuildPromptSupplied(probe.user_input,
                                                    probe.examples.v,
                                                    probe.max_examples)
                           ELSE BuildPrompt(probe.user_input, None, probe.src)]
    /\ UNCHANGED <<examples_cache, source, op, call, batch, store>>

\* GeminiClient.health_check() is called and its probe call resolves
ProviderHealth ==
    /\ probe.fn = "GeminiClient.health_check"
    /\ ~probe.applied
    /\ probe' = [probe EXCEPT !.applied = TRUE,
                              !.out = ProviderHealthCheck(probe.ev)]
    /\ UNCHANGED <<examples_cache, source, op, call, batch, store>>

\* IntentService.health_check() is called and runs to its return
ServiceHealth ==
    /\ probe.fn = "IntentService.health_check"
    /\ ~probe.applied
    /\ probe' = [probe EXCEPT
                   !.applied = TRUE,
                   !.out = HealthCheck(probe.ev, probe.cache, probe.src)]
    /\ UNCHANGED <<examples_cache, source, op, call, batch, store>>

\* GET /health is requested and answered
GetHealth ==
    /\ probe.fn = "GET /health"
    /\ ~probe.applied
    /\ probe' = [probe EXCEPT
                   !.applied = TRUE,
                   !.out = HealthEndpoint(probe.ev, probe.cache, probe.src)]
    /\ UNCHANGED <<examples_cache, source, op, call, batch, store>>

PureNext ==
    \/ Construct \/ Parse \/ Validate \/ Load \/ Build
    \/ ProviderHealth \/ ServiceHealth \/ GetHealth

PureSpec == PureInit /\ [][PureNext]_vars

(***************************************************************************)
(* Properties.                                                             *)
(***************************************************************************)
Succeeded(f) == f.outcome.type = "ClassificationResult"

IsFinished(f) == f.state \in {"Done", "Failed"}

HasError(res) == "error" \in DOMAIN res.metadata

Last(seq) == seq[Len(seq)]

TimeoutIndication == "Timeout ao chamar Gemini API ("

WrappedTypes ==
    {"PromptBuildException", "GeminiTimeoutException",
     "GeminiRateLimitException", "GeminiAPIException",
     "GeminiInvalidResponseException"}

OutcomeIsTyped(f) ==
    \/ /\ f.state = "Done"
       /\ f.outcome.type = "ClassificationResult"
    \/ /\ f.state = "Failed"
       /\ f.outcome.type = "ValidationException"
       /\ f.outcome = ValidateInput(f.user_input)
    \/ /\ f.state = "Failed"
       /\ f.outcome.type = "ClassificationFailedException"
       /\ f.outcome.cause.type \in WrappedTypes
       /\ f.outcome.message = <<"Falha na classificação: ">> \o Str(f.outcome.cause)
       /\ f.outcome.details.request_id = f.request_id
       /\ Len(f.outcome.details.input_preview) <= 100
       /\ f.outcome.details.input_preview
              = SubSeq(f.user_input, 1, Len(f.outcome.details.input_preview))
       /\ f.outcome.details.processing_time_ms = f.elapsed

\* C3: every classify call ends in exactly one of: a ClassificationResult; a
\* ValidationError as raised by the validation, not wrapped; or a
\* ClassificationFailedError whose reason is the message of the original
\* failure and whose details carry the correlation id, an input preview of at
\* most 100 characters and the elapsed time.  No other error leaves classify.
ClassifyOutcomeIsTyped ==
    \A p \in Procs :
        /\ IsFinished(call[p]) => OutcomeIsTyped(call[p])
        /\ \A i \in 1..Len(batch[p].calls) : OutcomeIsTyped(batch[p].calls[i])

\* C3 witness: a classify of a text longer than the preview failed on a
\* completion timeout and raised the wrapping error
LongInputTimedOut ==
    \E p \in Procs :
        /\ call[p].state = "Failed"
        /\ Len(call[p].user_input) > 100
        /\ call[p].event.kind = "timeout"
        /\ call[p].outcome.type = "ClassificationFailedException"

\* C4: validation fails fast: a classify call whose input the validation
\* rejects loads no examples, builds no prompt and calls no provider, and
\* leaves the example cache as it was.
ValidationFailsFast ==
    [][\A p \in Procs :
           /\ (call[p].state = "none" /\ call'[p].state = "Failed"
                   /\ call'[p].outcome.type = "ValidationException") =>
                  /\ examples_cache' = examples_cache
                  /\ call'[p].reads = 0
                  /\ call'[p].prompt = <<>>
                  /\ call'[p].gen_calls = 0
                  /\ call'[p].remote_calls = 0
           /\ (Len(batch'[p].calls) = Len(batch[p].calls) + 1
                   /\ Last(batch'[p].calls).outcome.type = "ValidationException") =>
                  /\ examples_cache' = examples_cache
                  /\ Last(batch'[p].calls).reads = 0
                  /\ Last(batch'[p].calls).prompt = <<>>
                  /\ Last(batch'[p].calls).gen_calls = 0
                  /\ Last(batch'[p].calls).remote_calls = 0]_vars

\* C4 witness: a classify was rejected by the validation while the cache was
\* empty and the source loadable
RejectedWithEmptyCache ==
    \E p \in Procs :
        /\ call[p].state = "Failed"
        /\ call[p].outcome.type = "ValidationException"
        /\ examples_cache = None
        /\ source = SourceA

InvalidPayload(ev) ==
    \/ ev.kind \in {"no_candidates", "no_content", "no_parts", "bad_structure"}
    \/ ev.kind = "text" /\ Strip(ev.text) = <<>>

ExpectedKind(ev) ==
    IF ev.kind = "timeout" THEN "GeminiTimeoutException"
    ELSE IF ev.kind = "resource_exhausted" THEN "GeminiRateLimitException"
    ELSE IF InvalidPayload(ev) THEN "GeminiInvalidResponseException"
    ELSE "GeminiAPIException"

CompletionFailed(f) ==
    /\ f.state = "Failed"
    /\ f.event.kind # "none"

\* C5: generate_completion fails with one of four distinct kinds: Timeout
\* when the call exceeds the timeout, RateLimited on resource exhaustion,
\* InvalidResponse when the payload has no candidate, no content parts or only
\* blank text, ApiError for any other remote failure; the error classify
\* received from generate_completion is of the kind of the event.
CompletionErrorKinds ==
    \A p \in Procs :
        /\ CompletionFailed(call[p]) =>
               call[p].outcome.cause.type = ExpectedKind(call[p].event)
        /\ \A i \in 1..Len(batch[p].calls) :
               CompletionFailed(batch[p].calls[i]) =>
                   batch[p].calls[i].outcome.cause.type
                       = ExpectedKind(batch[p].calls[i].event)

\* C6: every generate_completion call resolves: a classify that awaits the
\* completion eventually is Done or Failed (inside a batch: is recorded), also
\* when the remote service never answers.
CompletionResolves ==
    \A p \in Procs :
        (call[p].state = "Completing") ~> (call[p].state # "Completing")

\* C6 witness: a call the remote service never answered resolved by timeout
ResolvedByTimeout ==
    \E p \in Procs :
        /\ call[p].state = "Failed"
        /\ call[p].event.kind = "timeout"
        /\ call[p].elapsed >= Timeout
        /\ call[p].outcome.cause.type = "GeminiTimeoutException"

CalledAtMostOnce(f) ==
    /\ f.gen_calls <= 1
    /\ f.remote_calls <= f.gen_calls

\* C7: no hidden retries: a generate_completion call issues at most one remote
\* call, a classify invokes generate_completion at most once whatever fails,
\* and a classify_batch over n items invokes it at most n times, at most once
\* per item.
NoHiddenRetries ==
    \A p \in Procs :
        /\ CalledAtMostOnce(call[p])
        /\ \A i \in 1..Len(batch[p].calls) : CalledAtMostOnce(batch[p].calls[i])
        /\ op[p] = "classify_batch" =>
               Len(batch[p].calls) + (IF call[p].state = "none" THEN 0 ELSE 1)
                   <= Len(batch[p].user_inputs)

\* C7 witness: a returned batch of two items of which the first failed in the
\* provider; each item called the provider once
BatchCalledProviderPerItem ==
    \E p \in Procs :
        /\ op[p] = "classify_batch"
        /\ batch[p].returned
        /\ Len(batch[p].calls) = 2
        /\ batch[p].calls[1].event.kind = "google_api_error"
        /\ batch[p].calls[1].gen_calls = 1
        /\ batch[p].calls[2].gen_calls = 1

TierConsistent(r) ==
    /\ r.confidence >= 0
    /\ r.confidence <= ScoreOne
    /\ r.confidence_level \in ConfidenceLevel
    /\ r.confidence_level = "HIGH" <=> r.confidence >= 8000
    /\ r.confidence_level = "MEDIUM" <=> (r.confidence >= 5000 /\ r.confidence < 8000)
    /\ r.confidence_level = "LOW" <=> r.confidence < 5000

\* C8: every ClassificationResult returned by classify or classify_batch,
\* failure records included, has 0.0 <= confidence <= 1.0 and tier high iff
\* confidence >= 0.8, medium iff 0.5 <= confidence < 0.8, low iff
\* confidence < 0.5.
ReturnedResultsTierConsistent ==
    \A p \in Procs :
        /\ Succeeded(call[p]) => TierConsistent(call[p].outcome.result)
        /\ \A i \in 1..Len(batch[p].results) : TierConsistent(batch[p].results[i])

\* C8 witness: a batch holding a failure record (tier low) and a result of
\* confidence 0.95 (tier high)
BatchHoldsLowAndHigh ==
    \E p \in Procs :
        /\ Len(batch[p].results) = 2
        /\ batch[p].results[1].confidence = 0
        /\ batch[p].results[1].confidence_level = "LOW"
        /\ batch[p].results[2].confidence = 9500
        /\ batch[p].results[2].confidence_level = "HIGH"

\* C9: the tier of a ClassificationResult is a function of its score: whatever
\* value is supplied for the tier at construction, a ConfidenceLevel member
\* that disagrees with the score included, the stored tier is the one the
\* 0.8 / 0.5 thresholds give.
TierRecomputedFromScore ==
    (probe.fn = "ClassificationResult" /\ probe.applied) =>
        probe.out.confidence_level =
            (IF probe.out.confidence >= 8000 THEN "HIGH"
             ELSE IF probe.out.confidence >= 5000 THEN "MEDIUM"
             ELSE "LOW")

\* punctuation characters that may surround a word
PunctuationChars == {"!", "?", ".", ",", ";", ":", "-", "_", "#"}

\* text is value in some letter case, surrounded by punctuation or whitespace
Decorates(text, value) ==
    \E lo \in 1..Len(text), hi \in 1..Len(text) :
        /\ Lower(SubSeq(text, lo, hi)) = value
        /\ \A i \in 1..Len(text) :
               (i < lo \/ i > hi) => (text[i] \in PunctuationChars \/ IsSpace(text[i]))

ExactMatch(f) ==
    \A c \in IntentType :
        (f.state = "Done" /\ Decorates(f.event.text, IntentValue(c))) =>
            /\ f.outcome.result.intent = c
            /\ f.outcome.result.confidence = 9500
            /\ f.outcome.result.confidence_level = "HIGH"

\* C10: a completion text that is a known category value, in any letter case
\* and with or without surrounding punctuation or whitespace, is parsed to
\* that category with confidence 0.95, and the classify that received it
\* returns that category with confidence 0.95 and tier high.
ExactMatchYieldsCategory ==
    \A p \in Procs :
        /\ ExactMatch(call[p])
        /\ \A i \in 1..Len(batch[p].calls) : ExactMatch(batch[p].calls[i])

IsAlnumOrSpace(c) == IsAlnum(c) \/ IsSpace(c)

\* the cleaned string as the pipeline is specified: trimmed, lowercased, every
\* non-alphanumeric, non-whitespace character removed, trimmed again
SpecifiedCleaned(raw) == Strip(SelectSeq(Lower(Strip(raw)), IsAlnumOrSpace))

SpecifiedCategory(cleaned) ==
    IF \E c \in IntentType : IntentValue(c) = cleaned
    THEN CHOOSE c \in IntentType : IntentValue(c) = cleaned
    ELSE "UNKNOWN"

SpecifiedConfidence(cleaned, c) ==
    IF cleaned = IntentValue(c) THEN 9500
    ELSE IF c = "UNKNOWN" THEN 3000
    ELSE IF IsSubstring(IntentValue(c), cleaned) THEN 8500
    ELSE 7000

\* C11: parse follows the specified pipeline for every raw text: the cleaned
\* string is the trimmed, lowercased text without its non-alphanumeric,
\* non-whitespace characters; the category is the one whose value equals the
\* cleaned string, else unknown; the confidence is given by the first matching
\* rule (0.95, 0.30, 0.85, 0.70); a text matching no category yields
\* (unknown, 0.30) and parse never raises.
ParseFollowsPipeline ==
    (probe.fn = "_parse_llm_response" /\ probe.applied) =>
        /\ DOMAIN probe.out = {"intent", "confidence"}
        /\ probe.out.intent
               = SpecifiedCategory(SpecifiedCleaned(probe.raw_response))
        /\ probe.out.confidence
               = SpecifiedConfidence(SpecifiedCleaned(probe.raw_response),
                                     probe.out.intent)

\* C12: the validation rejects an input with ValidationError exactly when it is
\* empty after trimming, or longer than 1000 characters, or without any
\* alphanumeric character; 1000 alphanumeric characters are accepted, 1001
\* rejected, whitespace-only and punctuation-only inputs rejected.
ValidationRejectsExactly ==
    (probe.fn = "_validate_input" /\ probe.applied) =>
        /\ probe.out.type \in {"none", "ValidationException"}
        /\ probe.out.type = "ValidationException" <=>
               \/ Strip(probe.user_input) = <<>>
               \/ Len(probe.user_input) > 1000
               \/ \A i \in 1..Len(probe.user_input) : ~IsAlnum(probe.user_input[i])
        /\ (Len(probe.user_input) = 1000
               /\ \A i \in 1..1000 : IsAlnum(probe.user_input[i])) =>
               probe.out.type = "none"
        /\ Len(probe.user_input) = 1001 => probe.out.type = "ValidationException"

\* C12 witness: a text of exactly 1000 alphanumeric characters was accepted
ThousandCharsAccepted ==
    /\ probe.fn = "_validate_input"
    /\ probe.applied
    /\ Len(probe.user_input) = 1000
    /\ \A i \in 1..1000 : IsAlnum(probe.user_input[i])
    /\ probe.out = NoError

StoreReaders == {"load_examples", "get_examples_count", "get_examples_by_intent"}

\* C13: Example Store caching: once the cache is loaded, every further load
\* made without an intervening reload or clear returns the identical sequence
\* and does not read the source, even if the source changed in the meantime
\* (count and filter leave the cache alone); reload reads the source afresh
\* and what it returns is what the following loads return.
LoadIsCached ==
    /\ (store.last.op = "load_examples" /\ store.last.before.some) =>
           /\ store.last.ok
           /\ ~store.last.read
           /\ store.last.examples = store.last.before.v
           /\ store.last.after = store.last.before
    /\ (store.last.op = "load_examples" /\ store.prev.ok
            /\ store.prev.op \in {"load_examples", "reload_examples"}) =>
           /\ store.last.ok
           /\ ~store.last.read
           /\ store.last.examples = store.prev.examples
    /\ store.last.op \in {"get_examples_count", "get_examples_by_intent"} =>
           store.last.after = store.last.before
    /\ store.last.op = "reload_examples" =>
           /\ store.last.read
           /\ store.last.ok =>
                  /\ store.last.after = Some(store.last.examples)
                  /\ examples_cache = Some(store.last.examples)
                  /\ Len(store.last.examples) <= Len(store.last.src.entries)
                  /\ \A k \in 1..Len(store.last.examples) :
                         \E i \in 1..Len(store.last.src.entries) :
                             Strip(store.last.src.entries[i].user_input)
                                 = store.last.examples[k].user_input

\* C13 witness: a second load, made after the source was removed, returned
\* the sequence of the first load without reading
LoadedFromCacheAfterSourceChange ==
    /\ store.prev.op = "load_examples"
    /\ store.prev.ok
    /\ store.prev.read
    /\ store.last.op = "load_examples"
    /\ store.last.src = MissingSource
    /\ store.last.examples = store.prev.examples
    /\ ~store.last.read

\* C14: reload replaces the cached sequence atomically: a reader of the store
\* (load, count, filter) that runs after a reload of a loaded store, successful
\* or failed, observes the complete pre-reload sequence or the complete
\* post-reload sequence, never a cleared or empty cache.
ReloadIsAtomic ==
    (store.prev.op = "reload_examples" /\ store.prev.before.some
         /\ store.last.op \in StoreReaders) =>
        /\ store.last.before.some
        /\ \/ store.last.before = store.prev.before
           \/ store.prev.ok /\ store.last.before.v = store.prev.examples
        /\ store.last.op = "get_examples_count" =>
               store.last.count = Len(store.last.before.v)

\* the number of entries of a source that are valid examples
ValidCount(src) ==
    IF src.kind = "ok"
    THEN Cardinality({i \in 1..Len(src.entries) : IsValidItem(src.entries[i])})
    ELSE 0

\* C15: a reload that fails does not corrupt the cached sequence: the load
\* made immediately after a failed reload (the source being as the reload
\* found it) returns the old snapshot or fails explicitly with
\* ExamplesLoadError, and no load ever returns a partial or empty sequence.
FailedReloadIsExplicit ==
    /\ (store.prev.op = "reload_examples" /\ ~store.prev.ok
            /\ store.last.op = "load_examples"
            /\ store.last.src = store.prev.src) =>
           \/ /\ store.last.ok
              /\ store.prev.before.some
              /\ store.last.examples = store.prev.before.v
           \/ /\ ~store.last.ok
              /\ store.last.exc.type = "ExamplesLoadException"
    /\ (store.prev.op = "reload_examples" /\ ~store.prev.ok) =>
           store.prev.exc.type = "ExamplesLoadException"
    /\ (store.last.op \in {"load_examples", "reload_examples"}
            /\ store.last.ok) =>
           /\ store.last.examples # <<>>
           /\ store.last.read =>
                  Len(store.last.examples) = ValidCount(store.last.src)

\* C15 witness: a loaded store was reloaded from a removed source, the reload
\* failed, and the load made right after it failed explicitly
LoadAfterFailedReloadFailed ==
    /\ store.prev.op = "reload_examples"
    /\ ~store.prev.ok
    /\ store.prev.before.some
    /\ store.last.op = "load_examples"
    /\ store.last.src = store.prev.src
    /\ ~store.last.ok
    /\ store.last.exc.type = "ExamplesLoadException"

\* whether an entry of the source is a valid example: a mapping with a
\* user_input of 1 to 500 characters that is not blank, an intent that is a
\* category value and, if given, a confidence between 0 and 1
EntryIsValid(e) ==
    /\ e.mapping
    /\ Len(e.user_input) >= 1
    /\ Len(e.user_input) <= 500
    /\ \E i \in 1..Len(e.user_input) : ~IsSpace(e.user_input[i])
    /\ \E c \in IntentType : IntentValue(c) = e.intent
    /\ e.confidence.some => (e.confidence.v >= 0 /\ e.confidence.v <= 10000)

ValidEntries(src) == {i \in 1..Len(src.entries) : EntryIsValid(src.entries[i])}

\* the index in the source of its k-th valid entry
KthValid(src, k) ==
    CHOOSE i \in ValidEntries(src) :
        Cardinality({j \in ValidEntries(src) : j <= i}) = k

LoadableKinds == {"ok"}

\* C16: a load that reads the source returns exactly the entries that are
\* valid examples, in source order, skipping each invalid entry; it fails,
\* with ExamplesLoadError, if and only if the source is missing, not a file,
\* unreadable, malformed, not a mapping with a list-valued "examples" field,
\* or has no valid entry.
LoadReturnsValidEntries ==
    (probe.fn = "load_examples" /\ probe.applied) =>
        /\ probe.out.read
        /\ probe.out.ok <=>
               (probe.src.kind \in LoadableKinds /\ ValidEntries(probe.src) # {})
        /\ ~probe.out.ok => probe.out.exc.type = "ExamplesLoadException"
        /\ probe.out.ok =>
               /\ Len(probe.out.examples) = Cardinality(ValidEntries(probe.src))
               /\ probe.out.cache = Some(probe.out.examples)
               /\ \A k \in 1..Len(probe.out.examples) :
                      /\ probe.out.examples[k].user_input
                             = Strip(probe.src.entries[KthValid(probe.src, k)].user_input)
                      /\ IntentValue(probe.out.examples[k].intent)
                             = probe.src.entries[KthValid(probe.src, k)].intent
                      /\ probe.out.examples[k].confidence
                             = probe.src.entries[KthValid(probe.src, k)].confidence

\* C16 witness: a source of five entries, three of them invalid, was loaded
\* as its two valid entries
MixedSourceLoaded ==
    /\ probe.fn = "load_examples"
    /\ probe.applied
    /\ Len(probe.src.entries) = 5
    /\ probe.out.ok
    /\ Len(probe.out.examples) = 2

StageOrder == <<"Validating", "PromptBuilding", "Completing", "Parsing", "Done">>

\* the stages of a frame are the specified ones in order, up to the stage
\* the frame stands at or the one in which it failed
StagesInOrder(f) ==
    /\ f.stages # <<>>
    /\ Last(f.stages) = f.state
    /\ \/ /\ Len(f.stages) <= Len(StageOrder)
          /\ f.stages = SubSeq(StageOrder, 1, Len(f.stages))
       \/ /\ Len(f.stages) - 1 < Len(StageOrder)
          /\ SubSeq(f.stages, 1, Len(f.stages) - 1)
                 = SubSeq(StageOrder, 1, Len(f.stages) - 1)
          /\ Last(f.stages) = "Failed"
    /\ "PromptBuilding" \in Range(f.stages) => ValidateInput(f.user_input) = NoError
    /\ "Completing" \in Range(f.stages) <=> f.gen_calls = 1
    /\ f.gen_calls = 1 => f.prompt # <<>>
    /\ "Parsing" \in Range(f.stages) =>
           (f.event.kind = "text" /\ Strip(f.event.text) # <<>>)
    /\ f.state = "Done" <=> f.outcome.type = "ClassificationResult"
    /\ f.state = "Done" => f.outcome.result.raw_response = Strip(f.event.text)
    /\ f.state = "Failed" <=>
           f.outcome.type \in {"ValidationException", "ClassificationFailedException"}

\* C17: every classify moves through Validating, PromptBuilding, Completing,
\* Parsing, Done in that order without skipping or repeating a stage (prompt
\* built only after validation, provider called only with a built prompt,
\* parser run only on returned text, result only after parsing); a failure in
\* a stage moves to Failed; Done and Failed are terminal and exclusive.
ClassifyStagesInOrder ==
    [][\A p \in Procs :
           /\ call'[p].state # "none" => StagesInOrder(call'[p])
           /\ \A i \in 1..Len(batch'[p].calls) : StagesInOrder(batch'[p].calls[i])
           /\ call[p].state \in {"Done", "Failed"} =>
                  (call'[p] = call[p] \/ call'[p].state = "none")
           /\ \A i \in 1..Len(batch[p].calls) :
                  (i <= Len(batch'[p].calls)) =>
                      batch'[p].calls[i] = batch[p].calls[i]]_vars

\* C17 witness: a classify went through the five stages and is Done
WentThroughAllStages ==
    \E p \in Procs :
        /\ call[p].state = "Done"
        /\ call[p].stages = StageOrder
        /\ call[p].outcome.type = "ClassificationResult"

\* the decimal digits of the 0-based index of the i-th item
IndexText(i) == ToString(i - 1)

\* C18: the failure record of a failed batch item carries in its metadata
\* the error message and the index of the item within the batch.
FailedItemCarriesIndex ==
    \A p \in Procs :
        \A i \in 1..Len(batch[p].calls) :
            ~Succeeded(batch[p].calls[i]) =>
                /\ HasError(batch[p].results[i])
                /\ batch[p].results[i].metadata.error = Str(batch[p].calls[i].outcome)
                /\ \/ /\ "index" \in DOMAIN batch[p].results[i].metadata
                      /\ batch[p].results[i].metadata.index = i - 1
                   \/ /\ batch[p].results[i].metadata.request_id.some
                      /\ Last(batch[p].results[i].metadata.request_id.v)
                             = IndexText(i)

IsSentinel(r) == r.confidence = 0 /\ r.intent = "UNKNOWN" /\ HasError(r)

\* the number of recorded classify calls of a batch that raised
RaisedCount(b) == Cardinality({i \in 1..Len(b.calls) : ~Succeeded(b.calls[i])})

\* C19: batch failures are distinguishable: a result of classify_batch has
\* confidence 0.0, category unknown and metadata.error iff the classify of
\* that item raised, and a successful classification never has confidence
\* 0.0; so the counts of the batch endpoint satisfy total_successful +
\* total_failed = total_processed, and total_failed is the number of items
\* whose classify raised and the number of entries of the errors list.
BatchFailuresDistinguishable ==
    \A p \in Procs :
        /\ Succeeded(call[p]) => call[p].outcome.result.confidence > 0
        /\ \A i \in 1..Len(batch[p].calls) :
               /\ IsSentinel(batch[p].results[i]) <=> ~Succeeded(batch[p].calls[i])
               /\ Succeeded(batch[p].calls[i]) => batch[p].results[i].confidence > 0
        /\ batch[p].returned =>
               /\ batch[p].response.total_processed = Len(batch[p].user_inputs)
               /\ batch[p].response.total_successful + batch[p].response.total_failed
                      = batch[p].response.total_processed
               /\ batch[p].response.total_failed = RaisedCount(batch[p])
               /\ batch[p].response.total_failed = Len(batch[p].errors)
               /\ batch[p].response.total_failed =
                      (IF batch[p].response.errors.some
                       THEN Len(batch[p].response.errors.v) ELSE 0)

\* C19 witness: a returned batch whose first item raised and whose second
\* item was classified as unknown: one failure, one success
BatchCountsUnknownAsSuccess ==
    \E p \in Procs :
        /\ batch[p].returned
        /\ Len(batch[p].calls) = 2
        /\ ~Succeeded(batch[p].calls[1])
        /\ Succeeded(batch[p].calls[2])
        /\ batch[p].results[2].intent = "UNKNOWN"
        /\ batch[p].response.total_failed = 1
        /\ batch[p].response.total_successful = 1

\* the correlation id of the i-th item of a batch with id request_id
ItemId(request_id, i) ==
    IF request_id.some
    THEN Some(request_id.v \o <<"_item_", IndexText(i)>>)
    ELSE None

\* C20: in classify_batch the item at index i is classified with the
\* correlation id "<batchId>_item_<i>" when a batch id is supplied and with
\* none otherwise, and the result at index i, normal or failure record,
\* has exactly that id in its metadata.
BatchItemIds ==
    \A p \in Procs :
        /\ \A i \in 1..Len(batch[p].calls) :
               /\ batch[p].calls[i].request_id = ItemId(batch[p].request_id, i)
               /\ batch[p].results[i].metadata.request_id
                      = ItemId(batch[p].request_id, i)
        /\ (op[p] = "classify_batch" /\ call[p].state # "none") =>
               call[p].request_id
                   = ItemId(batch[p].request_id, Len(batch[p].calls) + 1)

\* C20 witness: a batch with an id whose second item failed and carries the
\* id of index 1
SecondItemIdRecorded ==
    \E p \in Procs :
        /\ batch[p].request_id.some
        /\ Len(batch[p].results) = 2
        /\ ~Succeeded(batch[p].calls[2])
        /\ Succeeded(batch[p].calls[1])
        /\ batch[p].results[2].metadata.request_id
               = Some(batch[p].request_id.v \o <<"_item_", "1">>)
        /\ batch[p].results[1].metadata.request_id
               = Some(batch[p].request_id.v \o <<"_item_", "0">>)

Min(a, b) == IF a < b THEN a ELSE b

\* the maximum number of examples build_prompt is asked to include
AskedMaximum(max_examples) ==
    IF max_examples.some THEN max_examples.v ELSE MaxExamplesInPrompt

\* the examples a build_prompt probe works from: those supplied, else those
\* a load of the source yields
ProbeExamplesOf(pr) ==
    IF pr.examples.some THEN pr.examples.v
    ELSE LoadExamples(None, pr.src).examples

\* C21: build_prompt includes exactly the first min(maxExamples, n) of the n
\* examples loaded or supplied, in their order, as blocks numbered 1..k that
\* render the example's input text and its category value; the prompt starts
\* with the system instruction and ends with the block holding the literal
\* user input followed by the "Output:" cue, with nothing after it.
PromptHoldsFirstExamples ==
    (probe.fn = "build_prompt" /\ probe.applied /\ probe.out.ok) =>
        LET examples == ProbeExamplesOf(probe)
            k == Min(AskedMaximum(probe.max_examples), Len(examples))
            head == Len(GetSystemInstruction)
            lines == probe.out.prompt
        IN  /\ Len(lines) = head + 3 + 4 * k + 3
            /\ SubSeq(lines, 1, head) = GetSystemInstruction
            /\ \A j \in 1..k :
                   /\ lines[head + 3 + 4 * (j - 1) + 1]
                          = <<"Exemplo ", ToString(j), ":">>
                   /\ lines[head + 3 + 4 * (j - 1) + 2]
                          = <<"Input: ">> \o examples[j].user_input
                   /\ lines[head + 3 + 4 * (j - 1) + 3]
                          = <<"Output: ">> \o IntentValue(examples[j].intent)
                   /\ lines[head + 3 + 4 * (j - 1) + 4] = <<>>
            /\ lines[Len(lines) - 2] = <<"## Tarefa:">>
            /\ lines[Len(lines) - 1] = <<"Input: ">> \o probe.user_input
            /\ lines[Len(lines)] = <<"Output:">>

\* a prompt was built from more supplied examples than the default maximum
PromptTruncatedToDefault ==
    /\ probe.fn = "build_prompt"
    /\ probe.applied
    /\ probe.examples.some
    /\ probe.max_examples = None
    /\ Len(probe.examples.v) > MaxExamplesInPrompt
    /\ probe.out.ok
    /\ Len(probe.out.prompt) = Len(GetSystemInstruction) + 3 + 4 * MaxExamplesInPrompt + 3

\* the probe call returned, in time, a payload whose first part holds a text
\* that is not blank
NonEmptyTextInTime(ev) ==
    /\ ev.kind = "text"
    /\ \E i \in 1..Len(ev.text) : ~IsSpace(ev.text[i])

\* C22: the provider's health_check never raises; it returns true only when
\* the probe completion returned within its timeout and a non-empty text was
\* extracted, and false for a timeout, a remote error or an invalid or empty
\* response.
ProviderHealthNeverRaises ==
    (probe.fn = "GeminiClient.health_check" /\ probe.applied) =>
        /\ ~probe.out.raised
        /\ probe.out.value <=> NonEmptyTextInTime(probe.ev)

\* the probe call returned a blank text and the provider reported unhealthy
BlankProbeTextUnhealthy ==
    /\ probe.fn = "GeminiClient.health_check"
    /\ probe.applied
    /\ probe.ev = Payload("text", <<" ", "\n">>)
    /\ ~probe.out.raised
    /\ ~probe.out.value

\* a load of the examples, with cache c and source src, yields at least one
\* example: they are cached, or the source can be read and holds a valid entry
LoadYieldsExamples(c, src) ==
    IF c.some THEN Len(c.v) >= 1
    ELSE src.kind \in LoadableKinds /\ ValidEntries(src) # {}

\* C23: the orchestrator's health_check returns true if and only if the
\* provider's health check returns true and loading the examples yields at
\* least one example; it returns false, without raising, when the provider
\* is unhealthy or the example load fails.
ServiceHealthIffProviderAndExamples ==
    (probe.fn = "IntentService.health_check" /\ probe.applied) =>
        /\ ~probe.out.raised
        /\ probe.out.value <=>
               (NonEmptyTextInTime(probe.ev)
                   /\ LoadYieldsExamples(probe.cache, probe.src))

\* the provider was healthy, the load failed and health_check returned false
HealthyProviderFailedLoad ==
    /\ probe.fn = "IntentService.health_check"
    /\ probe.applied
    /\ NonEmptyTextInTime(probe.ev)
    /\ probe.cache = None
    /\ probe.src = InvalidSource
    /\ probe.out.loaded
    /\ ~probe.out.raised
    /\ ~probe.out.value

SingleLoad == LoadExamples(None, source)

\* the calls that have built their prompt
BuiltPrompt(p) == op[p] = "classify" /\ call[p].state \in {"Completing", "Done"}

\* C25: concurrent first loads are safe: when several classify calls start
\* while the example cache is empty and the source is unchanged, every one
\* of them builds its prompt from the complete example sequence, and the
\* cache then holds one complete sequence, equal to what a single load would
\* have produced, whatever the interleaving.
ConcurrentFirstLoadsSafe ==
    /\ examples_cache \in {None, SingleLoad.cache}
    /\ \A p \in Procs :
           BuiltPrompt(p) =>
               /\ SingleLoad.ok
               /\ examples_cache = Some(SingleLoad.examples)
               /\ call[p].prompt
                      = PromptLines(call[p].user_input, SingleLoad.examples, None)
    /\ \A p \in Procs :
           (op[p] = "classify" /\ call[p].state = "Failed"
               /\ call[p].stages = <<"Validating", "PromptBuilding", "Failed">>)
               => ~SingleLoad.ok /\ examples_cache = None

\* two calls started on an empty cache, one after the other while the first
\* was suspended: the first read the source, the second found the cache
TwoCallsOneRead ==
    \E p \in Procs : \E q \in Procs \ {p} :
        /\ BuiltPrompt(p) /\ call[p].state = "Completing" /\ call[p].reads = 1
        /\ BuiltPrompt(q) /\ call[q].state = "Completing" /\ call[q].reads = 0
        /\ Len(SingleLoad.examples) >= 2

\* the classify of the loop of p's batch that is in progress
ItemInProgress(p) == op[p] = "classify_batch" /\ call[p].state = "Completing"

Unknown == <<"u", "n", "k", "n", "o", "w", "n">>

\* C27: the parser only ever returns confidence 0.95 or 0.30: every category
\* other than unknown comes with 0.95 (the 0.85 and 0.70 rules are never
\* applied), and a completion whose cleaned text is exactly "unknown" yields
\* category unknown with confidence 0.95, tier high, not 0.30.
ParserScoresExactOrUnknown ==
    (probe.fn = "_parse_llm_response" /\ probe.applied) =>
        /\ probe.out.confidence \in {ExactScore, UnknownScore}
        /\ probe.out.intent # "UNKNOWN" => probe.out.confidence = ExactScore
        /\ CleanResponse(probe.raw_response) = Unknown =>
               /\ probe.out.intent = "UNKNOWN"
               /\ probe.out.confidence = ExactScore
               /\ CalculateConfidenceLevel("", probe.out.confidence) = "HIGH"
        /\ (probe.out.intent = "UNKNOWN"
               /\ CleanResponse(probe.raw_response) # Unknown) =>
               probe.out.confidence = UnknownScore

\* a completion that cleans to "unknown" was parsed, with confidence 0.95
UnknownParsedWithExactScore ==
    /\ probe.fn = "_parse_llm_response"
    /\ probe.applied
    /\ probe.raw_response = <<"!">> \o Unknown \o <<"\n", ".">>
    /\ probe.out.intent = "UNKNOWN"
    /\ probe.out.confidence = ExactScore

\* the cache holds what one complete read of the source, in one of its
\* states, yields: a non-empty sequence of valid examples
CompleteReadOf(c, src) ==
    /\ src.kind \in LoadableKinds
    /\ ReadSource(src).ok
    /\ c = Some(ReadSource(src).examples)
    /\ Len(c.v) = Cardinality(ValidEntries(src))
    /\ Len(c.v) >= 1

IsLoad(e) == e.op \in {"load_examples", "reload_examples"}

\* C28: in every reachable state of the Example Store, after any sequence of
\* load, reload, clear_cache and failed loads, the cache is either unset or
\* a non-empty sequence of valid examples produced by one complete read of
\* the source; a load that fails leaves the cache unset, as it was before
\* that load, so the next load reads the source again.
CacheUnsetOrComplete ==
    /\ examples_cache = None \/ \E s \in Sources : CompleteReadOf(examples_cache, s)
    /\ (IsLoad(store.last) /\ ~store.last.ok) =>
           /\ store.last.read
           /\ store.last.after = None
           /\ examples_cache = None
           /\ store.last.op = "load_examples" => store.last.before = None
    /\ (IsLoad(store.prev) /\ ~store.prev.ok /\ IsLoad(store.last)) =>
           store.last.read

\* a load failed, the source was repaired, and the next load read it
LoadAfterFailedLoadReadSource ==
    /\ store.prev.op = "load_examples"
    /\ ~store.prev.ok
    /\ store.last.op = "load_examples"
    /\ store.last.read
    /\ store.last.ok
    /\ CompleteReadOf(examples_cache, source)

CachedLength(c) == IF c.some THEN Len(c.v) ELSE 0

\* C29: the count reported by get_examples_count and by get_statistics
\* equals the length of the cached sequence and is 0 whenever the cache is
\* unset (before the first successful load, after clear_cache, after a failed
\* reload), even if the source holds valid examples; neither operation loads
\* or changes the cache, and get_examples_by_intent on an unset cache returns
\* an empty list rather than loading.
CountIsCachedLength ==
    /\ store.last.op \in {"get_examples_count", "get_statistics"} =>
           /\ store.last.count = CachedLength(store.last.before)
           /\ store.last.before = None => store.last.count = 0
           /\ ~store.last.read
           /\ store.last.after = store.last.before
           /\ examples_cache = store.last.before
    /\ (store.last.op = "get_examples_by_intent" /\ store.last.before = None) =>
           /\ store.last.examples = <<>>
           /\ ~store.last.read
           /\ store.last.after = None
           /\ examples_cache = None

\* after a failed reload the source was repaired, and get_statistics reports
\* no example although the source holds valid ones
ZeroCountOverValidSource ==
    /\ store.prev.op = "reload_examples"
    /\ ~store.prev.ok
    /\ store.last.op = "get_statistics"
    /\ store.last.count = 0
    /\ ValidEntries(source) # {}
    /\ examples_cache = None

\* C30: GET /health reports "healthy" whenever the classifier's health
\* check succeeds and at least one example is loaded, "degraded" when the
\* health check fails but examples are loaded, and "unhealthy" only when
\* obtaining or running the checks raises.
HealthEndpointStatus ==
    (probe.fn = "GET /health" /\ probe.applied) =>
        /\ (NonEmptyTextInTime(probe.ev)
               /\ LoadYieldsExamples(probe.cache, probe.src))
               => probe.out.status = "healthy"
        /\ (~NonEmptyTextInTime(probe.ev)
               /\ LoadYieldsExamples(probe.cache, probe.src))
               => probe.out.status = "degraded"
        /\ probe.out.status = "unhealthy" => probe.out.error.some

====
